---- MODULE Spec2Model ----
(***************************************************************************)
(* State-machine model of the stateful parts of the LearnRag repository:   *)
(*   - AccountingRAG (accounting_rag.py): cache-first query processing     *)
(*   - SimpleFrenchLegalRAG (simple_demo.py): keyword routing              *)
(*   - ProductionRAGPatterns (production_patterns.py): cache_decorator,    *)
(*     RateLimiter, CircuitBreaker                                         *)
(* Python str values are TLA+ strings; TLC evaluates Len, SubSeq and \o on *)
(* them, so lower(), strip(), replace(), split() and the `in` test are     *)
(* computed character by character.                                        *)
(***************************************************************************)
EXTENDS Integers, Sequences, FiniteSets, TLC

VARIABLES
    now,                \* wall clock read by datetime.now() / time.time()
    calls,              \* number of operations invoked so far (bounded)
    \* ---- AccountingRAG ----
    demo_mode,          \* self.demo_mode
    storage,            \* self.cache["storage"]: cache key -> cached entry
    hit_count,          \* self.cache["hit_count"]
    miss_count,         \* self.cache["miss_count"]
    monitor,            \* self.monitor
    lastCall,           \* observation of the last AccountingRAG operation
    keyLog,             \* <<client_id, query, key>> of every generate_cache_key call
    lastStored,         \* cache key -> entry most recently written by cache_response
    \* ---- ProductionRAGPatterns.cache_decorator ----
    cache,              \* self.cache: cache key -> [result, timestamp]
    ttl,                \* the ttl argument of cache_decorator
    lastWrap,           \* observation of the last wrapper call
    \* ---- ProductionRAGPatterns.CircuitBreaker ----
    failure_threshold,  \* self.failure_threshold
    timeout,            \* self.timeout
    failure_count,      \* self.failure_count
    last_failure_time,  \* self.last_failure_time
    state,              \* self.state: "closed", "open" or "half-open"
    pc,                 \* position of call(): "idle" or "in_func"
    lastBreak,          \* observation of the last call()
    consecutive,        \* failing func invocations since the last successful one
    \* ---- ProductionRAGPatterns.RateLimiter ----
    rate,               \* self.rate
    burst,              \* self.burst
    tokens,             \* self.tokens, in units of 1/Resolution token
    last_update,        \* self.last_update
    lastAcquire,        \* observation of the last acquire()
    grants,             \* clock readings of the acquire() calls that returned True
    \* ---- SimpleFrenchLegalRAG ----
    demo_documents,     \* len(self.demo_documents)
    lastAnalyze,        \* observation of the last analyze_query()
    \* ---- ProductionRAGPatterns.retry_with_backoff ----
    max_retries,        \* the max_retries argument
    base_delay,         \* the base_delay argument, in seconds
    attempt,            \* the loop variable attempt
    retry_pc,           \* position: "call", "sleeping", "returned" or "raised"
    invocations,        \* outcome of every func() invocation, in order
    sleeps,             \* delay of every asyncio.sleep(), in order
    retry_result,       \* the value returned or the exception raised
    \* ---- QuickRAG ----
    quick_demo_mode,    \* self.demo_mode of the QuickRAG
    domain,             \* self.domain
    lastSearch,         \* observation of the last search() or ask()
    \* ---- MedicalRAG and RealEstateRAG search ----
    medical_demo_mode,  \* self.demo_mode of the MedicalRAG
    estate_demo_mode,   \* self.demo_mode of the RealEstateRAG
    lastFallback,       \* observation of the last search of the three RAG systems
    \* ---- concurrent process_accounting_query coroutines ----
    tasks,              \* the coroutines on the event loop: arguments and position
    \* ---- AccountingRAG._demo_search ----
    lastDemo,           \* observation of the last _demo_search()
    \* ---- ProductionRAGPatterns.BatchProcessor ----
    batch_size,         \* self.batch_size
    max_wait,           \* self.max_wait
    batch,              \* self.batch: the (item, callback) pairs
    batch_start_time,   \* self.batch_start_time
    has_batch_process_function, \* the instance has an attribute batch_process_function
    coroutines,         \* the add_to_batch coroutines: arguments, position and locals
    handed,             \* the item lists handed to the batch processing function
    called,             \* the callbacks awaited: item, result, awaiting coroutine
    lastDone,           \* the coroutine that returned in the last step, 0 when none did
    \* ---- RealEstateComplianceRAG.reciprocal_rank_fusion ----
    lastFusion,         \* the arguments of a reciprocal_rank_fusion call and what it returned
    \* ---- RealEstateComplianceRAG.check_energy_compliance ----
    lastEnergy          \* the property of a check_energy_compliance call and its result

accVars == <<demo_mode, storage, hit_count, miss_count, monitor, lastCall, keyLog, lastStored>>
decVars == <<cache, ttl, lastWrap>>
cbVars  == <<failure_threshold, timeout, failure_count, last_failure_time, state, pc,
             lastBreak, consecutive>>
rlVars  == <<rate, burst, tokens, last_update, lastAcquire, grants>>
legalVars == <<demo_documents, lastAnalyze>>
retryVars == <<max_retries, base_delay, attempt, retry_pc, invocations, sleeps, retry_result>>

coreVars == <<accVars, decVars, cbVars, rlVars, legalVars>>
quickVars == <<quick_demo_mode, domain, lastSearch>>
searchVars == <<medical_demo_mode, estate_demo_mode, lastFallback>>
taskVars == <<tasks>>
demoVars == <<lastDemo>>
batchVars == <<batch_size, max_wait, batch, batch_start_time, has_batch_process_function,
              coroutines, handed, called, lastDone>>
fusionVars == <<lastFusion>>
energyVars == <<lastEnergy>>
restVars == <<retryVars, quickVars, searchVars, taskVars, demoVars, batchVars, fusionVars, energyVars>>

vars == <<now, calls, coreVars, restVars>>

(***************************************************************************)
(* Bounds                                                                  *)
(***************************************************************************)
MaxCalls == 2            \* operations per run of the cache specifications
MaxClock == 30           \* last clock reading of the cache specifications
MaxThreshold == 2        \* largest failure_threshold of a CircuitBreaker
MaxTimeout == 2          \* largest timeout of a CircuitBreaker
MaxBreakerCalls == 5     \* call() invocations per run
MaxBreakerClock == 5     \* last clock reading of the breaker specification
MaxRate == 2             \* largest rate of a RateLimiter
MaxBurst == 2            \* largest burst argument of a RateLimiter
MaxAcquires == 4         \* acquire() invocations per run
MaxLimiterClock == 4     \* last clock reading of the limiter specification
Resolution == 2          \* clock readings per second in the limiter specification
MaxFragments == 3        \* fragments a legal query is made of
MaxDocuments == 1        \* files found in the demo_docs directory
MaxRetries == 4          \* largest max_retries of retry_with_backoff
MaxBaseDelay == 3        \* largest base_delay of retry_with_backoff
MaxTopK == 4             \* largest top_k asked of QuickRAG.search
MaxTasks == 2            \* concurrent process_accounting_query coroutines
MaxDemoFragments == 2    \* fragments an accounting demo query is made of
MaxTtl == 2              \* largest ttl of a cache_decorator
MaxDuration == 1         \* longest run of a decorated function
MaxDecoratorClock == 3   \* last clock reading the decorator's clock ticks to
MaxBatchSize == 2        \* largest batch_size of a BatchProcessor
MaxWait == 1             \* largest max_wait of a BatchProcessor
MaxAdds == 3             \* add_to_batch coroutines per run
MaxBatchClock == 2       \* last clock reading of the batch specification
MaxResults == 2          \* results per list handed to reciprocal_rank_fusion

None == [none |-> TRUE]

(***************************************************************************)
(* Python str operations                                                   *)
(***************************************************************************)
\* the cased characters of the alphabet the queries are written in
LowerOf ==
    [c \in {"A","B","C","D","E","F","G","H","I","J","K","L","M","N","O","P","Q","R","S",
            "T","U","V","W","X","Y","Z","É","È","Ô"} |->
        CASE c = "A" -> "a" [] c = "B" -> "b" [] c = "C" -> "c" [] c = "D" -> "d"
          [] c = "E" -> "e" [] c = "F" -> "f" [] c = "G" -> "g" [] c = "H" -> "h"
          [] c = "I" -> "i" [] c = "J" -> "j" [] c = "K" -> "k" [] c = "L" -> "l"
          [] c = "M" -> "m" [] c = "N" -> "n" [] c = "O" -> "o" [] c = "P" -> "p"
          [] c = "Q" -> "q" [] c = "R" -> "r" [] c = "S" -> "s" [] c = "T" -> "t"
          [] c = "U" -> "u" [] c = "V" -> "v" [] c = "W" -> "w" [] c = "X" -> "x"
          [] c = "Y" -> "y" [] c = "Z" -> "z" [] c = "É" -> "é" [] c = "È" -> "è"
          [] c = "Ô" -> "ô"]

\* str.lower() of one character
LowerChar(c) == IF c \in DOMAIN LowerOf THEN LowerOf[c] ELSE c

\* str.lower(): character by character, splitting the string in halves
RECURSIVE Lower(_)
Lower(s) ==
    IF Len(s) = 0 THEN ""
    ELSE IF Len(s) = 1 THEN LowerChar(s)
    ELSE Lower(SubSeq(s, 1, Len(s) \div 2)) \o Lower(SubSeq(s, Len(s) \div 2 + 1, Len(s)))

IsSpace(c) == c \in {" ", "\t", "\n"}

\* str.lstrip() / str.rstrip() / str.strip()
RECURSIVE LStrip(_)
LStrip(s) ==
    IF Len(s) > 0 /\ IsSpace(SubSeq(s, 1, 1)) THEN LStrip(SubSeq(s, 2, Len(s))) ELSE s

RECURSIVE RStrip(_)
RStrip(s) ==
    IF Len(s) > 0 /\ IsSpace(SubSeq(s, Len(s), Len(s)))
    THEN RStrip(SubSeq(s, 1, Len(s) - 1)) ELSE s

Strip(s) == RStrip(LStrip(s))

\* `sub in s`
Contains(s, sub) ==
    \E i \in 1..(Len(s) - Len(sub) + 1) : SubSeq(s, i, i + Len(sub) - 1) = sub

\* the least member of a non-empty set of positions
First(S) == CHOOSE i \in S : \A j \in S : i <= j

\* the positions at which sub occurs in s
Occurrences(s, sub) ==
    {i \in 1..(Len(s) - Len(sub) + 1) : SubSeq(s, i, i + Len(sub) - 1) = sub}

\* str.replace(old, new): leftmost non-overlapping occurrences, old non-empty
RECURSIVE Replace(_, _, _)
Replace(s, old, new) ==
    IF Occurrences(s, old) = {} THEN s
    ELSE LET i == First(Occurrences(s, old))
         IN  SubSeq(s, 1, i - 1) \o new \o Replace(SubSeq(s, i + Len(old), Len(s)), old, new)

\* str.split(): the maximal runs of non-whitespace characters, in order
RECURSIVE Split(_)
Split(s) ==
    LET t  == LStrip(s)
        sp == {i \in 1..Len(t) : IsSpace(SubSeq(t, i, i))}
    IN  IF t = "" THEN <<>>
        ELSE IF sp = {} THEN <<t>>
        ELSE <<SubSeq(t, 1, First(sp) - 1)>> \o Split(SubSeq(t, First(sp) + 1, Len(t)))

\* hashlib.md5(...).hexdigest(), taken to be collision free
Md5(content) == "md5(" \o content \o ")"

(***************************************************************************)
(* AccountingRAG                                                           *)
(***************************************************************************)
TTL_HOURS == 24

\* the replacements dict of generate_cache_key, in insertion order
replacements ==
    << <<"tva", "taxe sur la valeur ajoutée">>,
       <<"ir",  "impôt sur le revenu">>,
       <<"is",  "impôt sur les sociétés">>,
       <<"cfe", "cotisation foncière des entreprises">> >>

\* the loop `for abbr, full_term in replacements.items()` from entry i on
RECURSIVE ApplyReplacements(_, _)
ApplyReplacements(normalized, i) ==
    IF i > Len(replacements) THEN normalized
    ELSE ApplyReplacements(Replace(normalized, replacements[i][1], replacements[i][2]), i + 1)

generate_cache_key(query, client_id) ==
    LET normalized == ApplyReplacements(Strip(Lower(query)), 1)
        content    == client_id \o ":" \o normalized
    IN  Md5(content)

\* variant: an entry past its expires_at is not returned
get_cached_response_expiring(cache_key) ==
    IF cache_key \in DOMAIN storage /\ now <= storage[cache_key].expires_at
    THEN storage[cache_key] ELSE None

get_cached_response(cache_key) ==
    IF cache_key \in DOMAIN storage THEN storage[cache_key] ELSE None

\* the entry cache_response wrote last under cache_key, None if it never did
last_written(cache_key) ==
    IF cache_key \in DOMAIN lastStored THEN lastStored[cache_key] ELSE None

\* the entry built by cache_response: {**response, cached_at, expires_at}
cached_entry(response, ttl_hours) ==
    [cached_at |-> now, expires_at |-> now + ttl_hours] @@ response

\* variant: writing an entry drops the entries whose expires_at has passed
cache_response_evicting(cache_key, response, ttl_hours) ==
    LET live == {k \in DOMAIN storage : now <= storage[k].expires_at}
    IN  (cache_key :> cached_entry(response, ttl_hours)) @@ [k \in live |-> storage[k]]

\* self.cache["storage"] after cache_response(cache_key, response, ttl_hours)
cache_response(cache_key, response, ttl_hours) ==
    (cache_key :> cached_entry(response, ttl_hours)) @@ storage

\* self.demo_data["query_responses"], in insertion order
query_responses ==
    << [key_phrase |-> "tva prestation service", processing_time |-> "0.8s",
        sources |-> <<"CGI Art. L.271", "BOI-TVA-CHAMP-10-10">>, confidence |-> 96],
       [key_phrase |-> "frais repas déductible", processing_time |-> "0.6s",
        sources |-> <<"BOI-BIC-CHG-40-50-10", "Art. 39 CGI">>, confidence |-> 94] >>

\* variant: every word of the key phrase has to occur in the query
AllWordsIn(key_phrase, query_lower) ==
    LET words == Split(key_phrase)
    IN  \A j \in 1..Len(words) : Contains(query_lower, words[j])

\* any(word in query_lower for word in key_phrase.split())
AnyWordIn(key_phrase, query_lower) ==
    LET words == Split(key_phrase)
    IN  \E j \in 1..Len(words) : Contains(query_lower, words[j])

\* the loop of _demo_search from entry i on, then the generic fallback;
\* confidence is in percent, answer names the pre-written text
RECURSIVE DemoScan(_, _, _, _)
DemoScan(i, query, client_id, query_lower) ==
    IF i > Len(query_responses)
    THEN [query |-> query, client_id |-> client_id, answer |-> "generic",
          sources |-> <<"Recommandation générale">>, processing_time |-> "0.5s",
          confidence |-> 70,
          suggestion |-> "Reformulez votre question avec des termes comptables spécifiques",
          success |-> TRUE]
    ELSE IF AnyWordIn(query_responses[i].key_phrase, query_lower)
         THEN [query |-> query, client_id |-> client_id,
               answer |-> query_responses[i].key_phrase,
               sources |-> query_responses[i].sources,
               processing_time |-> query_responses[i].processing_time,
               confidence |-> query_responses[i].confidence,
               cost_saved |-> "€0.08 (cached)", success |-> TRUE]
         ELSE DemoScan(i + 1, query, client_id, query_lower)

_demo_search(query, client_id) == DemoScan(1, query, client_id, Lower(query))

\* _production_search: one of the OpenAI/Pinecone calls raises (apiOk false),
\* or the pipeline reaches self.generate_accounting_response, which
\* AccountingRAG does not define; the except clause turns either into an error dict
_production_search(query, client_id, apiOk) ==
    [query |-> query, client_id |-> client_id,
     error |-> IF apiOk
               THEN "'AccountingRAG' object has no attribute 'generate_accounting_response'"
               ELSE "exception",
     fallback_answer |-> "Erreur temporaire. Consultez votre documentation comptable ou contactez le support.",
     success |-> FALSE]

\* setup_monitoring(): amounts are kept in tenths (29.5 minutes = 295)
setup_monitoring ==
    [queries_today   |-> 0,
     response_times  |-> <<>>,
     cost_per_client |-> <<>>,
     error_count     |-> 0,
     uptime_start    |-> 0,
     client_usage    |-> <<>>,
     revenue_metrics |-> [time_saved_today |-> 0, value_created_today |-> 0,
                          queries_cached |-> 0, avg_response_time |-> 0]]

\* self.monitor after update_monitoring_metrics(client_id, ...); costs in cents
update_monitoring_metrics(m, client_id, processing_time) ==
    LET usage0 == IF client_id \in DOMAIN m.client_usage THEN m.client_usage
                  ELSE (client_id :> [queries_today |-> 0, total_cost |-> 0,
                                      time_saved_minutes |-> 0, value_created |-> 0])
                       @@ m.client_usage
        cm     == usage0[client_id]
        cm1    == [queries_today      |-> cm.queries_today + 1,
                   total_cost         |-> cm.total_cost + 8,
                   time_saved_minutes |-> cm.time_saved_minutes + 295,
                   value_created      |-> cm.value_created + 295]
    IN  [m EXCEPT !.client_usage    = (client_id :> cm1) @@ usage0,
                  !.queries_today   = @ + 1,
                  !.response_times  = Append(@, processing_time),
                  !.revenue_metrics = [@ EXCEPT !.time_saved_today = @ + 295,
                                                !.value_created_today = @ + 295]]

\* process_accounting_query(query, client_id); apiOk is the outcome of the
\* external calls of the production branch
process_accounting_query(query, client_id, apiOk) ==
    LET cache_key     == generate_cache_key(query, client_id)
        cached_result == get_cached_response(cache_key)
        base          == [op |-> "process_accounting_query", query |-> query,
                          client_id |-> client_id, cache_key |-> cache_key,
                          cached_result |-> cached_result,
                          written_before |-> last_written(cache_key),
                          hit_before |-> hit_count, miss_before |-> miss_count]
    IN  /\ calls < MaxCalls
        /\ calls' = calls + 1
        /\ keyLog' = keyLog \cup {<<client_id, query, cache_key>>}
        /\ IF cached_result # None
           THEN IF "queries_cached" \in DOMAIN monitor
                THEN LET hit == [processing_time |-> "0.1s (cached)",
                                 retrieved_from_cache |-> TRUE] @@ cached_result
                     IN  /\ monitor' = [monitor EXCEPT !["queries_cached"] = @ + 1]
                         /\ hit_count' = hit_count + 1
                         /\ storage' = (cache_key :> hit) @@ storage
                         /\ lastCall' = base @@ [outcome |-> "return", result |-> hit,
                                                 searched |-> "none"]
                         /\ UNCHANGED <<miss_count, lastStored>>
                ELSE \* self.monitor["queries_cached"] += 1 raises KeyError
                     /\ lastCall' = base @@ [outcome |-> "KeyError", result |-> None,
                                             searched |-> "none"]
                     /\ UNCHANGED <<storage, hit_count, miss_count, monitor, lastStored>>
           ELSE LET result == IF demo_mode THEN _demo_search(query, client_id)
                              ELSE _production_search(query, client_id, apiOk)
                    success == IF "success" \in DOMAIN result THEN result.success ELSE TRUE
                IN  /\ miss_count' = miss_count + 1
                    /\ storage' = IF success
                                  THEN cache_response(cache_key, result, TTL_HOURS)
                                  ELSE storage
                    /\ lastStored' = IF success
                                     THEN (cache_key :> cached_entry(result, TTL_HOURS)) @@ lastStored
                                     ELSE lastStored
                    /\ monitor' = update_monitoring_metrics(monitor, client_id, 0)
                    /\ lastCall' = base @@ [outcome |-> "return", result |-> result,
                                            searched |-> IF demo_mode THEN "_demo_search"
                                                         ELSE "_production_search"]
                    /\ UNCHANGED hit_count
        /\ UNCHANGED <<now, demo_mode, decVars, cbVars, rlVars, legalVars, restVars>>

\* a direct call of the public method cache_response(key, response, ttl_hours)
CacheResponseCall(query, client_id, ttl_hours) ==
    LET cache_key == generate_cache_key(query, client_id)
        response  == _demo_search(query, client_id)
    IN  /\ calls < MaxCalls
        /\ calls' = calls + 1
        /\ keyLog' = keyLog \cup {<<client_id, query, cache_key>>}
        /\ storage' = cache_response(cache_key, response, ttl_hours)
        /\ lastStored' = (cache_key :> cached_entry(response, ttl_hours)) @@ lastStored
        /\ lastCall' = [op |-> "cache_response", query |-> query, client_id |-> client_id,
                        cache_key |-> cache_key,
                        overwrote |-> (cache_key \in DOMAIN storage)]
        /\ UNCHANGED <<now, demo_mode, hit_count, miss_count, monitor, decVars, cbVars,
                       rlVars, legalVars, restVars>>

\* a direct call of the public method get_cached_response(key)
GetCachedResponseCall(query, client_id) ==
    LET cache_key == generate_cache_key(query, client_id)
    IN  /\ calls < MaxCalls
        /\ calls' = calls + 1
        /\ keyLog' = keyLog \cup {<<client_id, query, cache_key>>}
        /\ lastCall' = [op |-> "get_cached_response", query |-> query,
                        client_id |-> client_id, cache_key |-> cache_key,
                        cached_result |-> get_cached_response(cache_key),
                        written_before |-> last_written(cache_key)]
        /\ UNCHANGED <<now, demo_mode, storage, hit_count, miss_count, monitor, lastStored,
                       decVars, cbVars, rlVars, legalVars, restVars>>

\* time passes between operations, in steps of one default TTL plus an hour
AdvanceClock ==
    /\ now + TTL_HOURS + 1 <= MaxClock
    /\ now' = now + TTL_HOURS + 1
    /\ UNCHANGED <<calls, accVars, decVars, cbVars, rlVars, legalVars, restVars>>

(***************************************************************************)
(* ProductionRAGPatterns.cache_decorator                                   *)
(* One clock unit is an hour for AccountingRAG (ttl_hours) and a second    *)
(* for the decorator (ttl).                                                *)
(***************************************************************************)
DEFAULT_TTL == 3600

\* ProductionRAGPatterns.generate_cache_key(func_name, args, kwargs): args_str
\* is str(args) and kwargs_str is the JSON text of sorted(kwargs.items());
\* json.dumps(..., sort_keys=True) writes the keys in the order args,
\* function, kwargs
patterns_generate_cache_key(func_name, args_str, kwargs_str) ==
    Md5("{\"args\": \"" \o args_str \o "\", \"function\": \"" \o func_name
        \o "\", \"kwargs\": " \o kwargs_str \o "}")

\* variant: the entry is stamped with the time the wrapper was entered
cache_store_at_entry(cache_key, result, t) ==
    (cache_key :> [result |-> result, timestamp |-> now]) @@ cache

\* self.cache after the wrapper stored a fresh result at time t
cache_store(cache_key, result, t) ==
    (cache_key :> [result |-> result, timestamp |-> t]) @@ cache

\* one call of the wrapper returned by cache_decorator(ttl)(func): returned is
\* what func returns if invoked ("raise" when it raises), d the time func takes
wrapper(func_name, args_str, kwargs_str, returned, d) ==
    LET cache_key == patterns_generate_cache_key(func_name, args_str, kwargs_str)
        fresh     == cache_key \in DOMAIN cache /\ now - cache[cache_key].timestamp < ttl
        base      == [op |-> "wrapper", cache_key |-> cache_key, at |-> now,
                      cached_before |-> IF cache_key \in DOMAIN cache
                                        THEN cache[cache_key] ELSE None]
    IN  /\ calls < MaxCalls
        /\ calls' = calls + 1
        /\ IF fresh
           THEN /\ lastWrap' = base @@ [outcome |-> "return", invoked |-> FALSE,
                                        result |-> cache[cache_key].result]
                /\ UNCHANGED <<cache, now>>
           ELSE IF returned = "raise"
           THEN /\ lastWrap' = base @@ [outcome |-> "raise", invoked |-> TRUE,
                                        result |-> None]
                /\ now' = now + d
                /\ UNCHANGED cache
           ELSE /\ lastWrap' = base @@ [outcome |-> "return", invoked |-> TRUE,
                                        result |-> returned]
                /\ now' = now + d
                /\ cache' = cache_store(cache_key, returned, now + d)
        /\ UNCHANGED <<ttl, accVars, cbVars, rlVars, legalVars, restVars>>

FuncNames == { "embed", "search" }
ArgStrs == { "('q1',)", "('q2',)" }
FuncOutcomes == { "r1", "r2", "raise" }

\* a second passes for the decorator
DecoratorTick ==
    /\ now < MaxDecoratorClock
    /\ now' = now + 1
    /\ UNCHANGED <<calls, coreVars, restVars>>

(***************************************************************************)
(* ProductionRAGPatterns.CircuitBreaker                                    *)
(* call() is two steps, entry and the return of func, so that the state    *)
(* while func runs is visible; func returns or raises an Exception.        *)
(***************************************************************************)
\* variant: a success resets the count but leaves the state alone
success_count_only ==
    /\ failure_count' = 0
    /\ UNCHANGED <<state, last_failure_time>>

\* CircuitBreaker.success()
success ==
    /\ failure_count' = 0
    /\ state' = "closed"
    /\ UNCHANGED last_failure_time

\* variant: the breaker opens one failure late
failure_late ==
    /\ failure_count' = failure_count + 1
    /\ last_failure_time' = now
    /\ state' = IF failure_count + 1 > failure_threshold THEN "open" ELSE state

\* CircuitBreaker.failure()
failure ==
    /\ failure_count' = failure_count + 1
    /\ last_failure_time' = now
    /\ state' = IF failure_count + 1 >= failure_threshold THEN "open" ELSE state

\* variant: the open period ends as soon as timeout seconds have passed
rejects_until_timeout == state = "open" /\ ~(now - last_failure_time >= timeout)

\* the open-state test at the head of call(): TRUE when the call is rejected
rejects == state = "open" /\ ~(now - last_failure_time > timeout)

\* call(func) up to the invocation of func
CallEnter ==
    /\ pc = "idle"
    /\ calls < MaxBreakerCalls
    /\ calls' = calls + 1
    /\ IF rejects
       THEN \* raise Exception("Circuit breaker is open")
            /\ lastBreak' = [outcome |-> "rejected", invoked |-> FALSE, at |-> now,
                             state_before |-> state, count_before |-> failure_count,
                             failure_time_before |-> last_failure_time, trial |-> FALSE]
            /\ UNCHANGED <<state, pc>>
       ELSE /\ state' = IF state = "open" THEN "half-open" ELSE state
            /\ pc' = "in_func"
            /\ lastBreak' = [outcome |-> "pending", invoked |-> TRUE, at |-> now,
                             state_before |-> state, count_before |-> failure_count,
                             failure_time_before |-> last_failure_time,
                             trial |-> (state = "open")]
    /\ UNCHANGED <<now, failure_threshold, timeout, failure_count, last_failure_time,
                   consecutive, accVars, decVars, rlVars, legalVars, restVars>>

\* func returns: self.success(); return result
FuncReturns ==
    /\ pc = "in_func"
    /\ success
    /\ pc' = "idle"
    /\ consecutive' = 0
    /\ lastBreak' = [finished |-> now] @@ [lastBreak EXCEPT !.outcome = "returned"]
    /\ UNCHANGED <<now, calls, failure_threshold, timeout, accVars, decVars, rlVars,
                   legalVars, restVars>>

\* func raises: self.failure(); raise e
FuncRaises ==
    /\ pc = "in_func"
    /\ failure
    /\ pc' = "idle"
    /\ consecutive' = consecutive + 1
    /\ lastBreak' = [finished |-> now] @@ [lastBreak EXCEPT !.outcome = "raised"]
    /\ UNCHANGED <<now, calls, failure_threshold, timeout, accVars, decVars, rlVars,
                   legalVars, restVars>>

\* a second passes, between calls or while func runs
BreakerTick ==
    /\ now < MaxBreakerClock
    /\ now' = now + 1
    /\ UNCHANGED <<calls, accVars, decVars, cbVars, rlVars, legalVars, restVars>>

\* CircuitBreaker.__init__(failure_threshold, timeout)
BreakerInit ==
    /\ failure_threshold \in 1..MaxThreshold
    /\ timeout \in 1..MaxTimeout
    /\ failure_count = 0
    /\ last_failure_time = None
    /\ state = "closed"
    /\ pc = "idle"
    /\ lastBreak = [outcome |-> "init"]
    /\ consecutive = 0

\* no CircuitBreaker is in use
BreakerIdle ==
    /\ failure_threshold = 5
    /\ timeout = 60
    /\ failure_count = 0
    /\ last_failure_time = None
    /\ state = "closed"
    /\ pc = "idle"
    /\ lastBreak = [outcome |-> "init"]
    /\ consecutive = 0

(***************************************************************************)
(* ProductionRAGPatterns.RateLimiter                                       *)
(* The clock is read Resolution times a second and tokens are counted in   *)
(* units of 1/Resolution, so that elapsed * rate is exact.                 *)
(***************************************************************************)
Min(a, b) == IF a <= b THEN a ELSE b

\* variant: the refill is not capped at burst
refill_uncapped(elapsed) == tokens + elapsed * rate

\* the refill of acquire(): min(self.burst, self.tokens + elapsed * self.rate)
refill(elapsed) == Min(burst * Resolution, tokens + elapsed * rate)

\* RateLimiter.acquire()
acquire ==
    LET elapsed  == now - last_update
        refilled == refill(elapsed)
        ok       == refilled >= Resolution
    IN  /\ calls < MaxAcquires
        /\ calls' = calls + 1
        /\ last_update' = now
        /\ tokens' = IF ok THEN refilled - Resolution ELSE refilled
        /\ grants' = IF ok THEN Append(grants, now) ELSE grants
        /\ lastAcquire' = [op |-> "acquire", returned |-> ok, at |-> now, tokens_before |-> tokens,
                           last_update_before |-> last_update]
        /\ UNCHANGED <<now, rate, burst, accVars, decVars, cbVars, legalVars, restVars>>

\* the clock moves on by 1/Resolution second
LimiterTick ==
    /\ now < MaxLimiterClock
    /\ now' = now + 1
    /\ UNCHANGED <<calls, accVars, decVars, cbVars, rlVars, legalVars, restVars>>

\* RateLimiter.__init__(rate, burst): burst_arg 0 stands for both None and 0
RateLimiterInit(r, burst_arg) ==
    /\ rate = r
    /\ burst = IF burst_arg # 0 THEN burst_arg ELSE r
    /\ tokens = burst * Resolution
    /\ last_update = now
    /\ lastAcquire = [op |-> "init"]
    /\ grants = <<>>

\* no RateLimiter is in use
LimiterIdle ==
    /\ rate = 0
    /\ burst = 0
    /\ tokens = 0
    /\ last_update = 0
    /\ lastAcquire = [op |-> "init"]
    /\ grants = <<>>

(***************************************************************************)
(* SimpleFrenchLegalRAG                                                    *)
(***************************************************************************)
\* create_response_database(), in insertion order; answer names the
\* pre-written text, confidence is in percent
responses ==
    << [key |-> "obligations bailleur", answer |-> "obligations bailleur",
        sources |-> <<"contrat_bail_commercial.txt", "Article 4 - Obligations du bailleur">>,
        confidence |-> 95],
       [key |-> "période essai", answer |-> "période essai",
        sources |-> <<"contrat_travail_cdi.txt", "Article 6 - Période d'essai">>,
        confidence |-> 92],
       [key |-> "montant réclamé", answer |-> "montant réclamé",
        sources |-> <<"jugement_tribunal_commerce.txt", "Condamnation principale">>,
        confidence |-> 98],
       [key |-> "associés sarl", answer |-> "associés sarl",
        sources |-> <<"statuts_sarl.txt", "Article 7 - Répartition des parts">>,
        confidence |-> 94],
       [key |-> "clause résolutoire", answer |-> "clause résolutoire",
        sources |-> <<"contrat_bail_commercial.txt", "Article 6 - Clause résolutoire">>,
        confidence |-> 96] >>

\* sum(1 for keyword in keywords if keyword in query_lower)
score_of(key, query_lower) ==
    LET keywords == Split(key)
    IN  Cardinality({j \in 1..Len(keywords) : Contains(query_lower, keywords[j])})

\* all(keyword in query_lower for keyword in keywords)
all_in(key, query_lower) ==
    LET keywords == Split(key)
    IN  \A j \in 1..Len(keywords) : Contains(query_lower, keywords[j])

\* the first loop of find_best_match from entry i on: None if it falls through
RECURSIVE exact_scan(_, _)
exact_scan(i, query_lower) ==
    IF i > Len(responses) THEN None
    ELSE IF all_in(responses[i].key, query_lower) THEN responses[i]
         ELSE exact_scan(i + 1, query_lower)

\* variant: a later key with an equal score replaces the best match
RECURSIVE partial_scan_last(_, _, _, _)
partial_scan_last(i, query_lower, best_match, best_score) ==
    IF i > Len(responses) THEN best_match
    ELSE LET score == score_of(responses[i].key, query_lower)
         IN  IF score > 0 /\ score >= best_score
             THEN partial_scan_last(i + 1, query_lower, responses[i], score)
             ELSE partial_scan_last(i + 1, query_lower, best_match, best_score)

\* the second loop of find_best_match from entry i on
RECURSIVE partial_scan(_, _, _, _)
partial_scan(i, query_lower, best_match, best_score) ==
    IF i > Len(responses) THEN best_match
    ELSE LET score == score_of(responses[i].key, query_lower)
         IN  IF score > best_score
             THEN partial_scan(i + 1, query_lower, responses[i], score)
             ELSE partial_scan(i + 1, query_lower, best_match, best_score)

find_best_match(query) ==
    LET query_lower == Lower(query)
        exact       == exact_scan(1, query_lower)
    IN  IF exact # None THEN exact ELSE partial_scan(1, query_lower, None, 0)

\* the dict analyze_query returns; every response dict is non-empty, so
\* `if response:` tests for None
analyze_query_result(query) ==
    LET response == find_best_match(query)
    IN  IF response # None
        THEN [success |-> TRUE, answer |-> response.answer, sources |-> response.sources,
              confidence |-> response.confidence, processing_time |-> "0.8s",
              documents_analyzed |-> demo_documents]
        ELSE [success |-> TRUE, answer |-> "generic",
              sources |-> <<"demo_docs (analyse générale)">>, confidence |-> 75,
              processing_time |-> "0.5s", documents_analyzed |-> demo_documents]

\* analyze_query(query) for the query awaiting an answer; the time.sleep(1)
\* only delays the answer
analyze_query(query) ==
    /\ lastAnalyze.op = "asked"
    /\ lastAnalyze' = [op |-> "analyze_query", query |-> query,
                       response |-> find_best_match(query),
                       result |-> analyze_query_result(query)]
    /\ UNCHANGED <<now, calls, demo_documents, accVars, decVars, cbVars, rlVars, restVars>>

(***************************************************************************)
(* ProductionRAGPatterns.retry_with_backoff                                *)
(* The coroutine is followed step by step: one step per func() invocation  *)
(* and one per completed asyncio.sleep().                                  *)
(***************************************************************************)
RECURSIVE Pow2(_)
Pow2(n) == IF n = 0 THEN 1 ELSE 2 * Pow2(n - 1)

\* delay = base_delay * (2 ** attempt), one attempt late
backoff_delay_late(base, n) == base * Pow2(n + 1)

\* delay = base_delay * (2 ** attempt)
backoff_delay(base, n) == base * Pow2(n)

\* range(max_retries + 1) still yields the value attempt
in_range == attempt < max_retries + 1

\* func() is invoked and returns (ok) or raises; on a failure that is not the
\* last attempt the coroutine starts asyncio.sleep(delay)
Invoke(ok) ==
    /\ retry_pc = "call"
    /\ in_range
    /\ invocations' = Append(invocations, [attempt |-> attempt, ok |-> ok])
    /\ IF ok
       THEN /\ retry_pc' = "returned"
            /\ retry_result' = <<"result", attempt>>
            /\ UNCHANGED sleeps
       ELSE IF attempt = max_retries
            THEN /\ retry_pc' = "raised"
                 /\ retry_result' = <<"exception", attempt>>
                 /\ UNCHANGED sleeps
            ELSE /\ retry_pc' = "sleeping"
                 /\ sleeps' = Append(sleeps, backoff_delay(base_delay, attempt))
                 /\ UNCHANGED retry_result
    /\ UNCHANGED <<now, calls, max_retries, base_delay, attempt, coreVars, quickVars, searchVars, taskVars,
                   demoVars, batchVars, fusionVars, energyVars>>

\* asyncio.sleep(delay) completes and the loop takes its next value
SleepReturns ==
    /\ retry_pc = "sleeping"
    /\ now' = now + sleeps[Len(sleeps)]
    /\ attempt' = attempt + 1
    /\ retry_pc' = "call"
    /\ UNCHANGED <<calls, max_retries, base_delay, invocations, sleeps, retry_result, coreVars,
                   quickVars, searchVars, taskVars, demoVars, batchVars, fusionVars,
                   energyVars>>

\* retry_with_backoff(func, max_retries, base_delay) is called
RetryInit(m, b) ==
    /\ max_retries = m
    /\ base_delay = b
    /\ attempt = 0
    /\ retry_pc = "call"
    /\ invocations = <<>>
    /\ sleeps = <<>>
    /\ retry_result = None

\* retry_with_backoff is not running
RetryIdle ==
    /\ max_retries = 0
    /\ base_delay = 0
    /\ attempt = 0
    /\ retry_pc = "idle"
    /\ invocations = <<>>
    /\ sleeps = <<>>
    /\ retry_result = None

(***************************************************************************)
(* QuickRAG (quick_start.py)                                               *)
(***************************************************************************)
DEFAULT_TOP_K == 3

\* demo_data[...]["sample_response"] of load_demo_data
sample_responses ==
    [medical    |-> "Treatment for hypertension includes lifestyle modifications and medications...",
     legal      |-> "Key clauses include rent amount, lease duration, maintenance responsibilities...",
     realestate |-> "Based on the DPE rating, this property meets current energy standards...",
     accounting |-> "The standard VAT rate for B2B services in France is 20%...",
     generic    |-> "Our remote work policy allows flexible arrangements..."]

\* self.demo_data["sample_response"]: demo_data.get(self.domain, demo_data["generic"])
sample_response ==
    IF domain \in DOMAIN sample_responses THEN sample_responses[domain]
    ELSE sample_responses["generic"]

\* what search(query, top_k) does: scores are in hundredths; in production mode
\* it calls self.search_production, a method the class does not define
search_outcome(query, top_k) ==
    IF quick_demo_mode
    THEN [outcome |-> "return",
          results |-> << [content |-> "Relevant content for: " \o query, score |-> 95,
                          source |-> domain \o "_demo_doc_1"],
                         [content |-> sample_response, score |-> 88,
                          source |-> domain \o "_demo_doc_2"] >>]
    ELSE [outcome |-> "AttributeError", attribute |-> "search_production"]

\* QuickRAG.search(query, top_k)
search(query, top_k) ==
    /\ lastSearch' = [op |-> "search", query |-> query, top_k |-> top_k]
                     @@ search_outcome(query, top_k)
    /\ UNCHANGED <<now, calls, quick_demo_mode, domain, coreVars, retryVars, searchVars, taskVars, demoVars,
                   batchVars, fusionVars, energyVars>>

\* QuickRAG.ask(question): relevant_docs = self.search(question); the sources
\* and relevance_scores of the returned dict list every document found
ask(question) ==
    LET found == search_outcome(question, DEFAULT_TOP_K)
    IN  /\ lastSearch' =
               IF found.outcome = "return"
               THEN [op |-> "ask", query |-> question, top_k |-> DEFAULT_TOP_K,
                     outcome |-> "return", results |-> found.results,
                     sources |-> [i \in 1..Len(found.results) |-> found.results[i].source],
                     relevance_scores |->
                         [i \in 1..Len(found.results) |-> found.results[i].score]]
               ELSE [op |-> "ask", query |-> question, top_k |-> DEFAULT_TOP_K] @@ found
        /\ UNCHANGED <<now, calls, quick_demo_mode, domain, coreVars, retryVars, searchVars, taskVars, demoVars,
                   batchVars, fusionVars, energyVars>>

\* QuickRAG.__init__(domain): DEMO_MODE is read from the environment and
\* setup_production_apis falls back to demo mode when the setup fails
QuickInit(d, env_demo_mode, apis_ok) ==
    /\ domain = d
    /\ quick_demo_mode = (env_demo_mode \/ ~apis_ok)
    /\ lastSearch = [op |-> "init"]

\* no QuickRAG is in use
QuickIdle ==
    /\ domain = "generic"
    /\ quick_demo_mode = TRUE
    /\ lastSearch = [op |-> "init"]

(***************************************************************************)
(* MedicalRAG.search_medical_records, RealEstateRAG.hybrid_search and the  *)
(* search branch of AccountingRAG.process_accounting_query.                *)
(* Scores are in hundredths; the prose of a generated response is named by *)
(* its template.                                                           *)
(***************************************************************************)
\* medical_terms["synonyms"], in insertion order, the synonyms of a term joined
\* by spaces; the ligature of "coeur" is written as two letters
medical_synonyms ==
    << <<"hypertension", "tension élevée HTA pression artérielle élevée">>,
       <<"diabète",      "diabète sucré DT1 DT2 glycémie élevée">>,
       <<"cardiaque",    "coeur cardiologie cardiovasculaire">>,
       <<"prescription", "ordonnance traitement médicament">>,
       <<"antécédents",  "historique passé médical ATCD">> >>

\* the loop of enhance_medical_query from synonym entry i on
RECURSIVE AddSynonyms(_, _)
AddSynonyms(enhanced, i) ==
    IF i > Len(medical_synonyms) THEN enhanced
    ELSE AddSynonyms(IF Contains(enhanced, medical_synonyms[i][1])
                     THEN enhanced \o " " \o medical_synonyms[i][2]
                     ELSE enhanced, i + 1)

enhance_medical_query(query) == AddSynonyms(Lower(query), 1)

\* load_demo_data()["patients"]
medical_patients ==
  <<
    [id |-> "P001",
     records |-> <<
          [date |-> "2024-03-15", type |-> "Consultation",
           content |-> "\n                            Motif de consultation: Contrôle tension artérielle\n                            \n                            Antécédents:\n                            - Hypertension depuis 2019\n                            - Diabète type 2 depuis 2021\n                            - Antécédents familiaux cardiaques\n                            \n                            Examen clinique:\n                            - TA: 160/95 mmHg\n                            - Poids: 85kg\n                            - Glycémie: 1.8 g/L\n                            \n                            Diagnostic: HTA non contrôlée\n                            \n                            Traitement:\n                            - Augmentation Amlodipine 10mg\n                            - Poursuite Metformine 1000mg\n                            - Régime hyposodé conseillé\n                            \n                            Prochain RDV: dans 1 mois\n                            "],
          [date |-> "2024-01-10", type |-> "Bilan",
           content |-> "\n                            Bilan sanguin complet:\n                            - Glycémie à jeun: 1.65 g/L (élevée)\n                            - HbA1c: 7.8% (objectif <7%)\n                            - Cholestérol total: 2.4 g/L\n                            - Créatinine: 12 mg/L (normale)\n                            \n                            Conclusion: Diabète déséquilibré\n                            Ajustement traitement nécessaire\n                            "] >>],
    [id |-> "P002",
     records |-> <<
          [date |-> "2024-02-20", type |-> "Urgence",
           content |-> "\n                            Motif: Douleur thoracique\n                            \n                            Examen:\n                            - Douleur rétrosternale\n                            - ECG: Normal\n                            - Troponines: Négatives\n                            \n                            Diagnostic: Douleur musculaire intercostale\n                            \n                            Traitement:\n                            - Paracétamol 1g x3/jour\n                            - Repos 48h\n                            "] >>]
  >>

\* the records of every patient that the patient_id filter keeps, in order
RECURSIVE PatientRecords(_, _)
PatientRecords(i, patient_id) ==
    IF i > Len(medical_patients) THEN <<>>
    ELSE (IF patient_id # "" /\ medical_patients[i].id # patient_id THEN <<>>
          ELSE [j \in 1..Len(medical_patients[i].records) |->
                    [patient_id |-> medical_patients[i].id] @@ medical_patients[i].records[j]])
         \o PatientRecords(i + 1, patient_id)

\* any(term in content_lower for term in query_lower.split())
TermMatches(content, query_lower) ==
    \E k \in 1..Len(Split(query_lower)) : Contains(Lower(content), Split(query_lower)[k])

\* the results list built by the loops of MedicalRAG._demo_search
RECURSIVE MedicalResults(_, _, _)
MedicalResults(records, i, query_lower) ==
    IF i > Len(records) THEN <<>>
    ELSE (IF TermMatches(records[i].content, query_lower)
          THEN << [patient_id |-> records[i].patient_id, date |-> records[i].date,
                   type |-> records[i].type,
                   excerpt |-> SubSeq(records[i].content, 1, 200) \o "...",
                   relevance_score |-> 85 + (IF Contains(query_lower, "hypertension")
                                             THEN 10 ELSE 0)] >>
          ELSE <<>>)
         \o MedicalResults(records, i + 1, query_lower)

\* _generate_medical_response(query, results), results non-empty
_generate_medical_response(query, results) ==
    IF Contains(Lower(query), "hypertension")
    THEN [template |-> "hypertension", query |-> query, sources |-> Len(results),
          date |-> results[1].date]
    ELSE IF Contains(Lower(query), "diabète") \/ Contains(Lower(query), "diabete")
    THEN [template |-> "diabète", query |-> query, sources |-> Len(results),
          date |-> results[1].date]
    ELSE [template |-> "generic", query |-> query, sources |-> Len(results),
          date |-> results[1].date]

\* MedicalRAG._demo_search(query, patient_id); patient_id "" stands for None
medical_demo_search(query, patient_id) ==
    LET results == MedicalResults(PatientRecords(1, patient_id), 1, Lower(query))
    IN  [query |-> query,
         enhanced_query |-> enhance_medical_query(query),
         results |-> SubSeq(results, 1, IF Len(results) < 3 THEN Len(results) ELSE 3),
         response |-> IF results # <<>> THEN _generate_medical_response(query, results)
                      ELSE [template |-> "Aucun résultat trouvé pour cette recherche."],
         search_time |-> "0.8s"]

\* the dict returned by the except clause of search_medical_records
medical_error_result(query, patient_id, e) ==
    [error |-> e, results |-> <<>>, fallback |-> "Using cached results..."]

\* the exceptions the production branch of search_medical_records ends in: it
\* reaches self._format_search_results, which MedicalRAG does not define,
\* unless an earlier step has raised
MedicalErrors ==
    { "No module named 'openai'", "embedding request failed",
      "'MedicalRAG' object has no attribute '_format_search_results'" }

\* MedicalRAG.search_medical_records(query, patient_id)
search_medical_records(query, patient_id, e) ==
    /\ lastFallback.op = "init"
    /\ lastFallback' =
           [op |-> "search_medical_records", query |-> query,
            demo_mode |-> medical_demo_mode,
            raised |-> ~medical_demo_mode, outcome |-> "return",
            result |-> IF medical_demo_mode THEN medical_demo_search(query, patient_id)
                       ELSE medical_error_result(query, patient_id, e),
            error |-> e,
            demo_answer |-> medical_demo_search(query, patient_id)]
    /\ UNCHANGED <<now, calls, medical_demo_mode, estate_demo_mode, coreVars, retryVars,
                   quickVars, taskVars, demoVars, batchVars, fusionVars, energyVars>>

\* load_demo_properties(): the fields _demo_search reads
demo_properties ==
    << [id |-> "PROP001", type |-> "appartement", dpe_class |-> "F", dpe_energy |-> "380",
        amiante |-> TRUE, amiante_presence |-> FALSE],
       [id |-> "PROP002", type |-> "maison", dpe_class |-> "D", dpe_energy |-> "230",
        amiante |-> TRUE, amiante_presence |-> TRUE] >>

\* the results one property adds in RealEstateRAG._demo_search
PropertyResults(prop, query, property_type) ==
    IF property_type # "" /\ prop.type # property_type THEN <<>>
    ELSE (IF Contains(Lower(query), "dpe") \/ Contains(Lower(query), "énergie")
          THEN << [property_id |-> prop.id, relevance |-> 95,
                   excerpt |-> "DPE Classe " \o prop.dpe_class \o " - Consommation "
                               \o prop.dpe_energy \o " kWh/m²/an",
                   doc_type |-> "diagnostic", highlight |-> "Performance énergétique"] >>
          ELSE <<>>)
         \o
         (IF (Contains(Lower(query), "amiante") \/ Contains(Lower(query), "diagnostic"))
             /\ prop.amiante
          THEN << [property_id |-> prop.id, relevance |-> 92,
                   excerpt |-> "Diagnostic amiante: "
                               \o (IF prop.amiante_presence THEN "Présence détectée"
                                   ELSE "Absence"),
                   doc_type |-> "diagnostic", highlight |-> "Diagnostic sécurité"] >>
          ELSE <<>>)

\* RealEstateRAG._demo_search(query, doc_type, property_type): results[:5];
\* property_type "" stands for None
RECURSIVE EstateResults(_, _, _)
EstateResults(i, query, property_type) ==
    IF i > Len(demo_properties) THEN <<>>
    ELSE PropertyResults(demo_properties[i], query, property_type)
         \o EstateResults(i + 1, query, property_type)

estate_demo_search(query, property_type) ==
    LET results == EstateResults(1, query, property_type)
    IN  SubSeq(results, 1, IF Len(results) < 5 THEN Len(results) ELSE 5)

\* variant: the except clause of hybrid_search lets the exception propagate
hybrid_search_outcome_raising(query, property_type) ==
    IF estate_demo_mode
    THEN [outcome |-> "return", result |-> estate_demo_search(query, property_type)]
    ELSE [outcome |-> "raise", result |-> <<>>]

\* hybrid_search: the production branch calls self.enhance_property_query, which
\* RealEstateRAG does not define, and the except clause returns []
hybrid_search_outcome(query, property_type) ==
    IF estate_demo_mode
    THEN [outcome |-> "return", result |-> estate_demo_search(query, property_type)]
    ELSE [outcome |-> "return", result |-> <<>>]

\* RealEstateRAG.hybrid_search(query, doc_type, property_type)
hybrid_search(query, property_type) ==
    /\ lastFallback.op = "init"
    /\ lastFallback' =
           [op |-> "hybrid_search", query |-> query, demo_mode |-> estate_demo_mode,
            raised |-> ~estate_demo_mode,
            demo_answer |-> estate_demo_search(query, property_type)]
           @@ hybrid_search_outcome(query, property_type)
    /\ UNCHANGED <<now, calls, medical_demo_mode, estate_demo_mode, coreVars, retryVars,
                   quickVars, taskVars, demoVars, batchVars, fusionVars, energyVars>>

\* the search branch of process_accounting_query(query, client_id)
accounting_search(query, client_id, apiOk) ==
    /\ lastFallback.op = "init"
    /\ lastFallback' =
           [op |-> "_production_search", query |-> query, client_id |-> client_id,
            demo_mode |-> demo_mode,
            raised |-> ~demo_mode, outcome |-> "return",
            result |-> IF demo_mode THEN _demo_search(query, client_id)
                       ELSE _production_search(query, client_id, apiOk),
            demo_answer |-> _demo_search(query, client_id)]
    /\ UNCHANGED <<now, calls, medical_demo_mode, estate_demo_mode, coreVars, retryVars,
                   quickVars, taskVars, demoVars, batchVars, fusionVars, energyVars>>

\* the three RAG systems are constructed
SearchInit ==
    /\ medical_demo_mode \in BOOLEAN
    /\ estate_demo_mode \in BOOLEAN
    /\ lastFallback = [op |-> "init"]

\* no search of the three RAG systems is observed
SearchIdle ==
    /\ medical_demo_mode = TRUE
    /\ estate_demo_mode = TRUE
    /\ lastFallback = [op |-> "init"]

(***************************************************************************)
(* Concurrent invocations of AccountingRAG.process_accounting_query on one *)
(* event loop: a coroutine runs without interruption until it reaches an   *)
(* await that suspends it.                                                 *)
(***************************************************************************)
\* variant: the demo branch awaits its search as the production branch does
reaches_await_always == TRUE

\* the search of the branch taken is awaited: `await self._production_search`
\* in production mode, the plain call self._demo_search in demo mode
reaches_await == ~demo_mode

\* steps 7C and 7D: cache a successful result and update the metrics
FinishQuery(t, result) ==
    LET cache_key == generate_cache_key(tasks[t].query, tasks[t].client_id)
        cacheable == IF "success" \in DOMAIN result THEN result.success ELSE TRUE
    IN  /\ storage' = IF cacheable THEN cache_response(cache_key, result, TTL_HOURS)
                      ELSE storage
        /\ lastStored' = IF cacheable
                         THEN (cache_key :> cached_entry(result, TTL_HOURS)) @@ lastStored
                         ELSE lastStored
        /\ monitor' = update_monitoring_metrics(monitor, tasks[t].client_id, 0)
        /\ tasks' = [tasks EXCEPT ![t].pc = "done"]

\* the event loop runs coroutine t from its start to its first suspension
\* point, or to its end when it reaches none
TaskStart(t) ==
    LET cache_key     == generate_cache_key(tasks[t].query, tasks[t].client_id)
        cached_result == get_cached_response(cache_key)
    IN  /\ tasks[t].pc = "scheduled"
        /\ IF cached_result # None
           THEN IF "queries_cached" \in DOMAIN monitor
                THEN /\ monitor' = [monitor EXCEPT !["queries_cached"] = @ + 1]
                     /\ hit_count' = hit_count + 1
                     /\ storage' = (cache_key :> ([processing_time |-> "0.1s (cached)",
                                                   retrieved_from_cache |-> TRUE]
                                                  @@ cached_result)) @@ storage
                     /\ tasks' = [tasks EXCEPT ![t].pc = "done"]
                     /\ UNCHANGED <<miss_count, lastStored>>
                ELSE \* self.monitor["queries_cached"] += 1 raises KeyError
                     /\ tasks' = [tasks EXCEPT ![t].pc = "KeyError"]
                     /\ UNCHANGED <<storage, hit_count, miss_count, monitor, lastStored>>
           ELSE /\ miss_count' = miss_count + 1
                /\ UNCHANGED hit_count
                /\ IF reaches_await
                   THEN /\ tasks' = [tasks EXCEPT ![t].pc = "awaiting"]
                        /\ UNCHANGED <<storage, monitor, lastStored>>
                   ELSE FinishQuery(t, _demo_search(tasks[t].query, tasks[t].client_id))
        /\ UNCHANGED <<now, calls, demo_mode, lastCall, keyLog, decVars, cbVars, rlVars,
                       legalVars, retryVars, quickVars, searchVars, demoVars, batchVars,
                       fusionVars, energyVars>>

\* the awaited search of coroutine t completes and the coroutine runs to its end
TaskResume(t, apiOk) ==
    /\ tasks[t].pc = "awaiting"
    /\ FinishQuery(t, IF demo_mode THEN _demo_search(tasks[t].query, tasks[t].client_id)
                      ELSE _production_search(tasks[t].query, tasks[t].client_id, apiOk))
    /\ UNCHANGED <<now, calls, demo_mode, hit_count, miss_count, lastCall, keyLog, decVars,
                   cbVars, rlVars, legalVars, retryVars, quickVars, searchVars, demoVars,
                   batchVars, fusionVars, energyVars>>

\* no coroutine is scheduled
TasksIdle == tasks = <<>>

(***************************************************************************)
(* AccountingRAG._demo_search called on its own                            *)
(***************************************************************************)
\* self._demo_search(query, client_id) of an AccountingRAG in demo mode
DemoSearchCall ==
    /\ lastDemo.op = "asked"
    /\ lastDemo' = [op |-> "_demo_search", query |-> lastDemo.query,
                    client_id |-> lastDemo.client_id,
                    result |-> _demo_search(lastDemo.query, lastDemo.client_id)]
    /\ UNCHANGED <<now, calls, coreVars, retryVars, quickVars, searchVars, taskVars, batchVars, fusionVars,
                   energyVars>>

\* no _demo_search call is observed
DemoIdle == lastDemo = [op |-> "init"]

(***************************************************************************)
(* ProductionRAGPatterns.BatchProcessor                                    *)
(* Every add_to_batch call is a coroutine on one event loop; it is         *)
(* suspended while it awaits the batch processing function or a callback.  *)
(* An item is named by the coroutine that adds it.                         *)
(***************************************************************************)
\* [item for item, _ in self.batch] / [callback for _, callback in self.batch]
ItemsOf(b) == [i \in 1..Len(b) |-> b[i].item]
CallbacksOf(b) == [i \in 1..Len(b) |-> b[i].callback]

\* the result the batch processing function returns for an item
ResultOf(item) == <<"result", item>>

\* the positions from i on whose callback is not None
Pending(t, i) == {j \in i..Len(coroutines[t].callbacks) : coroutines[t].callbacks[j]}

\* the loop `for result, callback in zip(results, callbacks)` of coroutine t
\* from position i on, up to its next await, and the clearing of the batch
\* that follows the loop
RunCallbacks(t, i, c) ==
    IF Pending(t, i) # {}
    THEN LET j == First(Pending(t, i))
         IN  /\ called' = Append(called, [item |-> c.items[j],
                                          result |-> ResultOf(c.items[j]), by |-> t])
             /\ coroutines' = [coroutines EXCEPT ![t] = [c EXCEPT !.pc = "awaiting_callback",
                                                                  !.next = j + 1]]
             /\ lastDone' = 0
             /\ UNCHANGED <<batch, batch_start_time>>
    ELSE /\ batch' = <<>>
         /\ batch_start_time' = None
         /\ coroutines' = [coroutines EXCEPT ![t] = [c EXCEPT !.pc = "done"]]
         /\ lastDone' = t
         /\ UNCHANGED called

\* add_to_batch(item, callback) runs up to its first suspension point: it
\* appends, and when the batch is full or too old it enters process_batch,
\* which reads self.batch_process_function
add_to_batch(t) ==
    LET start1 == IF batch = <<>> THEN now ELSE batch_start_time
        batch1 == Append(batch, [item |-> t, callback |-> coroutines[t].callback])
        full   == Len(batch1) >= batch_size \/ now - start1 > max_wait
    IN  /\ coroutines[t].pc = "scheduled"
        /\ batch' = batch1
        /\ batch_start_time' = start1
        /\ IF ~full
           THEN /\ coroutines' = [coroutines EXCEPT ![t].pc = "done"]
                /\ lastDone' = t
           ELSE IF ~has_batch_process_function
           THEN /\ coroutines' = [coroutines EXCEPT ![t].pc = "AttributeError",
                                                    ![t].triggered = TRUE,
                                                    ![t].accumulated = ItemsOf(batch1)]
                /\ lastDone' = t
           ELSE /\ coroutines' = [coroutines EXCEPT ![t].pc = "awaiting_function",
                                                    ![t].triggered = TRUE,
                                                    ![t].accumulated = ItemsOf(batch1),
                                                    ![t].items = ItemsOf(batch1),
                                                    ![t].callbacks = CallbacksOf(batch1)]
                /\ lastDone' = 0
        /\ UNCHANGED <<now, calls, batch_size, max_wait, has_batch_process_function, handed,
                       called, coreVars, retryVars, quickVars, searchVars, taskVars, demoVars,
                       fusionVars, energyVars>>

\* the batch processing function returns one result per item and process_batch
\* goes on to the callbacks
FunctionReturns(t) ==
    /\ coroutines[t].pc = "awaiting_function"
    /\ handed' = Append(handed, coroutines[t].items)
    /\ RunCallbacks(t, 1, coroutines[t])
    /\ UNCHANGED <<now, calls, batch_size, max_wait, has_batch_process_function, coreVars,
                   retryVars, quickVars, searchVars, taskVars, demoVars, fusionVars,
                   energyVars>>

\* an awaited callback returns and the loop of process_batch goes on
CallbackReturns(t) ==
    /\ coroutines[t].pc = "awaiting_callback"
    /\ RunCallbacks(t, coroutines[t].next, coroutines[t])
    /\ UNCHANGED <<now, calls, batch_size, max_wait, has_batch_process_function, handed,
                   coreVars, retryVars, quickVars, searchVars, taskVars, demoVars, fusionVars,
                   energyVars>>

\* a second passes
BatchTick ==
    /\ now < MaxBatchClock
    /\ now' = now + 1
    /\ UNCHANGED <<calls, coreVars, restVars>>

\* BatchProcessor.__init__(batch_size, max_wait); the class defines no
\* batch_process_function, so the attribute exists only when the caller has
\* assigned one to the instance
BatchInit(size, wait, assigned) ==
    /\ batch_size = size
    /\ max_wait = wait
    /\ batch = <<>>
    /\ batch_start_time = None
    /\ has_batch_process_function = assigned
    /\ handed = <<>>
    /\ called = <<>>
    /\ lastDone = 0

\* no BatchProcessor is in use
BatchIdle ==
    /\ batch_size = 10
    /\ max_wait = 1
    /\ batch = <<>>
    /\ batch_start_time = None
    /\ has_batch_process_function = FALSE
    /\ coroutines = <<>>
    /\ handed = <<>>
    /\ called = <<>>
    /\ lastDone = 0

(***************************************************************************)
(* RealEstateComplianceRAG.reciprocal_rank_fusion                          *)
(* A result is [has_id, id, text]: has_id tells whether the dict has an    *)
(* 'id' key. A score is an exact fraction [num, den]; the weights are      *)
(* counted in tenths, which scales every score alike.                      *)
(***************************************************************************)
DEFAULT_K == 60

Frac(n, d) == [num |-> n, den |-> d]
FracAdd(x, y) == Frac(x.num * y.den + y.num * x.den, x.den * y.den)
FracLess(x, y) == x.num * y.den < y.num * x.den

\* result.get('id', str(rank))
doc_id(result, rank) == IF result.has_id THEN result.id ELSE ToString(rank)

\* a dict as the sequence of its items in insertion order
HasKey(d, key) == \E i \in 1..Len(d) : d[i].key = key
Lookup(d, key) == d[CHOOSE i \in 1..Len(d) : d[i].key = key].value
SetItem(d, key, value) ==
    IF HasKey(d, key)
    THEN [i \in 1..Len(d) |-> IF d[i].key = key THEN [key |-> key, value |-> value] ELSE d[i]]
    ELSE Append(d, [key |-> key, value |-> value])

\* scores after the loop over the first n results of results1
RECURSIVE ScoreFirst(_, _, _, _)
ScoreFirst(results1, n, k, weight) ==
    IF n = 0 THEN <<>>
    ELSE SetItem(ScoreFirst(results1, n - 1, k, weight),
                 doc_id(results1[n], n - 1), Frac(weight, k + (n - 1) + 1))

\* scores after the loop over the first n results of results2
RECURSIVE ScoreSecond(_, _, _, _, _)
ScoreSecond(scores1, results2, n, k, weight) ==
    IF n = 0 THEN scores1
    ELSE LET scores == ScoreSecond(scores1, results2, n - 1, k, weight)
             id     == doc_id(results2[n], n - 1)
             share  == Frac(weight, k + (n - 1) + 1)
         IN  IF HasKey(scores, id)
             THEN SetItem(scores, id, FracAdd(Lookup(scores, id), share))
             ELSE SetItem(scores, id, share)

\* an item put into a list sorted by falling score, behind the items that
\* score as much
RECURSIVE InsertFalling(_, _)
InsertFalling(sorted, item) ==
    IF sorted = <<>> THEN <<item>>
    ELSE IF FracLess(Head(sorted).value, item.value) THEN <<item>> \o sorted
    ELSE <<Head(sorted)>> \o InsertFalling(Tail(sorted), item)

RECURSIVE SortFalling(_, _)
SortFalling(scores, n) ==
    IF n = 0 THEN <<>> ELSE InsertFalling(SortFalling(scores, n - 1), scores[n])

\* variant: sorted without reverse=True
sorted_ids_rising(scores) ==
    LET items == SortFalling(scores, Len(scores))
    IN  [i \in 1..Len(items) |-> items[Len(items) + 1 - i].key]

\* sorted(scores.keys(), key=lambda x: scores[x], reverse=True): a stable sort
sorted_ids(scores) ==
    LET items == SortFalling(scores, Len(scores)) IN [i \in 1..Len(items) |-> items[i].key]

\* result.get('id', str(hash(str(result)))): the hash text of a result is
\* taken to differ from every id and every rank
reconstruct_id(result) == IF result.has_id THEN result.id ELSE "hash(" \o result.text \o ")"

\* id_to_result after the first n results of results1 + results2
RECURSIVE Reconstruct(_, _)
Reconstruct(results, n) ==
    IF n = 0 THEN <<>>
    ELSE LET id_to_result == Reconstruct(results, n - 1)
             id == reconstruct_id(results[n])
         IN  IF HasKey(id_to_result, id) THEN id_to_result
             ELSE SetItem(id_to_result, id, results[n])

\* [id_to_result[doc_id] for doc_id in sorted_ids if doc_id in id_to_result]
RECURSIVE Collect(_, _)
Collect(ids, id_to_result) ==
    IF ids = <<>> THEN <<>>
    ELSE (IF HasKey(id_to_result, Head(ids)) THEN <<Lookup(id_to_result, Head(ids))>> ELSE <<>>)
         \o Collect(Tail(ids), id_to_result)

fusion(results1, results2, k, weights) ==
    LET scores1 == ScoreFirst(results1, Len(results1), k, weights[1])
        scores  == ScoreSecond(scores1, results2, Len(results2), k, weights[2])
        all     == results1 \o results2
    IN  Collect(sorted_ids(scores), Reconstruct(all, Len(all)))

\* reciprocal_rank_fusion(results1, results2, k, weights)
reciprocal_rank_fusion ==
    /\ lastFusion.op = "asked"
    /\ lastFusion' = [lastFusion EXCEPT !.op = "fused"]
                     @@ [fused |-> fusion(lastFusion.results1, lastFusion.results2,
                                          lastFusion.k, lastFusion.weights)]
    /\ UNCHANGED <<now, calls, coreVars, retryVars, quickVars, searchVars, taskVars, demoVars,
                   batchVars, energyVars>>

\* no fusion is asked for
FusionIdle == lastFusion = [op |-> "init"]

(***************************************************************************)
(* RealEstateComplianceRAG.check_energy_compliance                         *)
(* For this check the clock now is the proleptic Gregorian ordinal of the  *)
(* day datetime.now() falls on. A property is [has_dpe, date, class]:      *)
(* has_dpe is false when documents or dpe is missing or empty, and a       *)
(* missing 'date' or 'class' key is written "missing".                     *)
(***************************************************************************)
\* load_2024_regulations()["energy"]
dpe_validity_years == 10

rental_restrictions ==
    [G |-> [banned_from |-> "2025-01-01"],
     F |-> [banned_from |-> "2028-01-01"],
     E |-> [renovation_required_from |-> "2034-01-01"]]

\* the number a decimal digit stands for
DigitValue(c) == CHOOSE d \in 0..9 : ToString(d) = c

\* int() of a string of decimal digits
RECURSIVE ParseDigits(_)
ParseDigits(text) ==
    IF text = "" THEN 0
    ELSE 10 * ParseDigits(SubSeq(text, 1, Len(text) - 1))
         + DigitValue(SubSeq(text, Len(text), Len(text)))

\* datetime.fromisoformat("YYYY-MM-DD") as <<year, month, day>>
fromisoformat(text) ==
    <<ParseDigits(SubSeq(text, 1, 4)), ParseDigits(SubSeq(text, 6, 7)),
      ParseDigits(SubSeq(text, 9, 10))>>

\* date.toordinal(): the days from 0001-01-01, which is day 1
toordinal(date) ==
    LET y   == IF date[2] <= 2 THEN date[1] - 1 ELSE date[1]
        era == y \div 400
        yoe == y - era * 400
        mp  == IF date[2] > 2 THEN date[2] - 3 ELSE date[2] + 9
        doy == (153 * mp + 2) \div 5 + date[3] - 1
        doe == yoe * 365 + yoe \div 4 - yoe \div 100 + doy
    IN  era * 146097 + doe - 305

\* the ComplianceIssue appended by a branch
ComplianceIssue(severity, description, legal_reference, recommendation) ==
    [severity |-> severity, category |-> "energy", description |-> description,
     legal_reference |-> legal_reference, recommendation |-> recommendation]

\* status, score and issues after the check of the DPE validity
validity_result(dpe_date) ==
    IF now - toordinal(dpe_date) > dpe_validity_years * 365
    THEN [status |-> "NON_COMPLIANT", score |-> 20,
          issues |-> <<ComplianceIssue("high", "DPE expiré (validité 10 ans)",
                                       "Article R.134-4-2", "Renouveler le DPE")>>]
    ELSE [status |-> "COMPLIANT", score |-> 100, issues |-> <<>>]

\* the branch of a class listed in rental_restrictions: restriction["banned_from"]
\* raises KeyError when the restriction has no such key
restriction_result(dpe_class, before) ==
    IF "banned_from" \notin DOMAIN rental_restrictions[dpe_class]
    THEN [outcome |-> "KeyError", key |-> "banned_from"]
    ELSE IF now >= toordinal(fromisoformat(rental_restrictions[dpe_class].banned_from))
    THEN [outcome |-> "return", status |-> "NON_COMPLIANT", score |-> 0,
          issues |-> Append(before.issues,
                            ComplianceIssue("high", "Location interdite - Classe " \o dpe_class,
                                            "Loi Climat et Résilience",
                                            "Rénovation énergétique urgente requise"))]
    ELSE [outcome |-> "return", status |-> "PARTIAL", score |-> 50,
          issues |-> Append(before.issues,
                            ComplianceIssue("medium",
                                            "Location interdite dans N mois - Classe "
                                            \o dpe_class,
                                            "Loi Climat et Résilience",
                                            "Planifier rénovation énergétique"))]

\* check_energy_compliance(property_data); the count of months in the
\* description is left as N
energy_result(property_data) ==
    IF ~property_data.has_dpe
    THEN [outcome |-> "return", status |-> "NON_COMPLIANT", score |-> 0,
          issues |-> <<ComplianceIssue("high", "DPE obligatoire manquant",
                                       "Article L.134-1 Code Construction",
                                       "Faire réaliser un DPE par un diagnostiqueur certifié")>>]
    ELSE LET dpe_date  == fromisoformat(IF property_data.date = "missing"
                                        THEN "2000-01-01" ELSE property_data.date)
             dpe_class == IF property_data.class = "missing" THEN "" ELSE property_data.class
             before    == validity_result(dpe_date)
         IN  IF dpe_class \in DOMAIN rental_restrictions
             THEN restriction_result(dpe_class, before)
             ELSE [outcome |-> "return"] @@ before

check_energy_compliance ==
    /\ lastEnergy.op = "asked"
    /\ lastEnergy' = [op |-> "checked", property_data |-> lastEnergy.property_data,
                      result |-> energy_result(lastEnergy.property_data)]
    /\ UNCHANGED <<now, calls, coreVars, retryVars, quickVars, searchVars, taskVars, demoVars,
                   batchVars, fusionVars>>

\* no energy check is asked for
EnergyIdle == lastEnergy = [op |-> "init"]

\* the components of the second half of the module are not in use
RestIdle == RetryIdle /\ QuickIdle /\ SearchIdle /\ TasksIdle /\ DemoIdle /\ BatchIdle /\ FusionIdle /\ EnergyIdle

\* pieces the queries are made of
Fragments ==
    { "Quelles sont les obligations du bailleur ?", "bailleur",
      "Période d'essai", "essai", "Associés SARL", "clause résolutoire",
      "Question générale sur les contrats" }

\* the queries of n fragments joined by spaces
RECURSIVE QueriesOf(_)
QueriesOf(n) ==
    IF n = 1 THEN Fragments
    ELSE {q \o " " \o f : q \in QueriesOf(n - 1), f \in Fragments}

LegalQueries == UNION {QueriesOf(n) : n \in 1..MaxFragments}

\* SimpleFrenchLegalRAG.__init__, and the query the user is about to ask
LegalInit ==
    /\ demo_documents \in 0..MaxDocuments
    /\ \E q \in LegalQueries : lastAnalyze = [op |-> "asked", query |-> q]

\* queries of the cache-key specification: every abbreviation and its full term
Queries ==
    { "tva", "taxe sur la valeur ajoutée", "ir", "impôt sur le revenu",
      "is", "impôt sur les sociétés", "cfe", "cotisation foncière des entreprises",
      " TVA ", "b:c", "c" }

\* queries of the cache specification
AccQueries == { "tva", " TVA ", "frais de repas" }

\* queries of the specification of both caches
CacheQueries == { "tva", "ir" }

ClientIds == { "a", "a:b" }

ApiOutcomes == IF demo_mode THEN {TRUE} ELSE BOOLEAN

\* AccountingRAG.__init__
AccountingInit ==
    /\ demo_mode \in BOOLEAN
    /\ storage = <<>>
    /\ hit_count = 0
    /\ miss_count = 0
    /\ monitor = setup_monitoring
    /\ lastCall = [op |-> "init"]
    /\ keyLog = {}
    /\ lastStored = <<>>

\* ProductionRAGPatterns.__init__ and the ttl given to cache_decorator
PatternsInit ==
    /\ cache = <<>>
    /\ ttl \in {1, DEFAULT_TTL}
    /\ lastWrap = [op |-> "init"]

\* the decorator is not in use
PatternsIdle ==
    /\ cache = <<>>
    /\ ttl = DEFAULT_TTL
    /\ lastWrap = [op |-> "init"]

\* no SimpleFrenchLegalRAG is in use
LegalIdle ==
    /\ demo_documents = 0
    /\ lastAnalyze = [op |-> "init"]

InitAccounting ==
    /\ now = 0
    /\ calls = 0
    /\ AccountingInit
    /\ PatternsIdle /\ BreakerIdle /\ LimiterIdle /\ LegalIdle /\ RestIdle

NextAccounting ==
    \/ \E q \in AccQueries, c \in ClientIds, ok \in ApiOutcomes :
           process_accounting_query(q, c, ok)
    \/ \E q \in AccQueries, c \in ClientIds : CacheResponseCall(q, c, TTL_HOURS)
    \/ \E q \in AccQueries, c \in ClientIds : GetCachedResponseCall(q, c)
    \/ AdvanceClock

SpecAccounting == InitAccounting /\ [][NextAccounting]_vars

NextCacheKeys ==
    \E q \in Queries, c \in ClientIds, ok \in ApiOutcomes : process_accounting_query(q, c, ok)

SpecCacheKeys == InitAccounting /\ [][NextCacheKeys]_vars

InitCaches ==
    /\ now = 0
    /\ calls = 0
    /\ AccountingInit
    /\ PatternsInit
    /\ BreakerIdle /\ LimiterIdle /\ LegalIdle /\ RestIdle

NextCaches ==
    \/ \E q \in CacheQueries, ok \in ApiOutcomes : process_accounting_query(q, "a", ok)
    \/ \E q \in CacheQueries : CacheResponseCall(q, "a", TTL_HOURS)
    \/ \E f \in FuncNames, a \in ArgStrs, r \in FuncOutcomes : wrapper(f, a, "[]", r, 0)
    \/ AdvanceClock

SpecCaches == InitCaches /\ [][NextCaches]_vars

\* AccountingRAG is not in use
AccountingIdle ==
    /\ demo_mode = TRUE
    /\ storage = <<>>
    /\ hit_count = 0
    /\ miss_count = 0
    /\ monitor = setup_monitoring
    /\ lastCall = [op |-> "init"]
    /\ keyLog = {}
    /\ lastStored = <<>>

InitBreaker ==
    /\ now = 0
    /\ calls = 0
    /\ BreakerInit
    /\ AccountingIdle /\ PatternsIdle /\ LimiterIdle /\ LegalIdle /\ RestIdle

NextBreaker == CallEnter \/ FuncReturns \/ FuncRaises \/ BreakerTick

SpecBreaker == InitBreaker /\ [][NextBreaker]_vars

InitLimiter ==
    /\ now = 0
    /\ calls = 0
    /\ \E r \in 0..MaxRate, b \in 0..MaxBurst : RateLimiterInit(r, b)
    /\ AccountingIdle /\ PatternsIdle /\ BreakerIdle /\ LegalIdle /\ RestIdle

NextLimiter == acquire \/ LimiterTick

SpecLimiter == InitLimiter /\ [][NextLimiter]_vars

InitLegal ==
    /\ now = 0
    /\ calls = 0
    /\ LegalInit
    /\ AccountingIdle /\ PatternsIdle /\ BreakerIdle /\ LimiterIdle /\ RestIdle

NextLegal == analyze_query(lastAnalyze.query)

SpecLegal == InitLegal /\ [][NextLegal]_vars

\* the components of the first half of the module are not in use
CoreIdle == AccountingIdle /\ PatternsIdle /\ BreakerIdle /\ LimiterIdle /\ LegalIdle

InitRetry ==
    /\ now = 0
    /\ calls = 0
    /\ \E m \in 0..MaxRetries, b \in 1..MaxBaseDelay : RetryInit(m, b)
    /\ CoreIdle /\ QuickIdle /\ SearchIdle /\ TasksIdle /\ DemoIdle /\ BatchIdle /\ FusionIdle
    /\ EnergyIdle

NextRetry == (\E ok \in BOOLEAN : Invoke(ok)) \/ SleepReturns

SpecRetry == InitRetry /\ [][NextRetry]_vars

\* func() returns or raises and asyncio.sleep() completes
SpecRetryFair == SpecRetry /\ WF_vars(NextRetry)

Domains == { "medical", "legal", "realestate", "accounting", "generic", "retail" }

QuickQueries == { "bail commercial", "TVA", "" }

InitQuick ==
    /\ now = 0
    /\ calls = 0
    /\ \E d \in Domains, e \in BOOLEAN, ok \in BOOLEAN : QuickInit(d, e, ok)
    /\ CoreIdle /\ RetryIdle /\ SearchIdle /\ TasksIdle /\ DemoIdle /\ BatchIdle /\ FusionIdle
    /\ EnergyIdle

NextQuick ==
    \/ \E q \in QuickQueries, k \in 1..MaxTopK : search(q, k)
    \/ \E q \in QuickQueries : ask(q)

SpecQuick == InitQuick /\ [][NextQuick]_vars

MedicalQueries ==
    { "hypertension", "Diabète mal contrôlé", "douleur thoracique", "HTA traitement",
      "antécédents cardiaque", "radiographie" }

PatientIds == { "", "P001", "P002", "P003" }

EstateQueries == { "DPE classe énergie", "diagnostic amiante", "DPE et amiante", "notaire" }

PropertyTypes == { "", "appartement", "maison", "terrain" }

InitSearch ==
    /\ now = 0
    /\ calls = 0
    /\ AccountingInit
    /\ SearchInit
    /\ PatternsIdle /\ BreakerIdle /\ LimiterIdle /\ LegalIdle /\ RetryIdle /\ QuickIdle
    /\ TasksIdle /\ DemoIdle /\ BatchIdle /\ FusionIdle /\ EnergyIdle

NextSearch ==
    \/ \E q \in MedicalQueries, p \in PatientIds, e \in MedicalErrors :
           search_medical_records(q, p, e)
    \/ \E q \in EstateQueries, t \in PropertyTypes : hybrid_search(q, t)
    \/ \E q \in AccQueries, c \in ClientIds, ok \in BOOLEAN : accounting_search(q, c, ok)

SpecSearch == InitSearch /\ [][NextSearch]_vars

\* the invocations handed to the event loop, e.g. by asyncio.gather
TaskArguments ==
    { [query |-> q, client_id |-> c, pc |-> "scheduled"] : q \in AccQueries, c \in ClientIds }

InitTasks ==
    /\ now = 0
    /\ calls = 0
    /\ AccountingInit
    /\ \E n \in 1..MaxTasks : tasks \in [1..n -> TaskArguments]
    /\ PatternsIdle /\ BreakerIdle /\ LimiterIdle /\ LegalIdle
    /\ RetryIdle /\ QuickIdle /\ SearchIdle /\ DemoIdle /\ BatchIdle /\ FusionIdle
    /\ EnergyIdle

NextTasks ==
    \/ \E t \in DOMAIN tasks : TaskStart(t)
    \/ \E t \in DOMAIN tasks, ok \in BOOLEAN : TaskResume(t, ok)

SpecTasks == InitTasks /\ [][NextTasks]_vars


\* pieces the accounting queries are made of
DemoFragments ==
    { "TVA", "prestations de services", "Frais de REPAS", "DÉDUCTIBLE",
      "amortissement ordinateur", "bonjour", "" }

\* the queries of n fragments joined by spaces
RECURSIVE DemoQueriesOf(_)
DemoQueriesOf(n) ==
    IF n = 1 THEN DemoFragments
    ELSE {q \o " " \o f : q \in DemoQueriesOf(n - 1), f \in DemoFragments}

DemoQueries == UNION {DemoQueriesOf(n) : n \in 1..MaxDemoFragments}

InitDemo ==
    /\ now = 0
    /\ calls = 0
    /\ \E q \in DemoQueries, c \in ClientIds :
           lastDemo = [op |-> "asked", query |-> q, client_id |-> c]
    /\ CoreIdle /\ RetryIdle /\ QuickIdle /\ SearchIdle /\ TasksIdle /\ BatchIdle /\ FusionIdle
    /\ EnergyIdle

NextDemo == DemoSearchCall

SpecDemo == InitDemo /\ [][NextDemo]_vars


\* kwargs as the JSON text of sorted(kwargs.items())
KwargsStrs == { "[]", "[[\"top_k\", 3]]" }

InitDecorator ==
    /\ now = 0
    /\ calls = 0
    /\ cache = <<>>
    /\ ttl \in 1..MaxTtl
    /\ lastWrap = [op |-> "init"]
    /\ AccountingIdle /\ BreakerIdle /\ LimiterIdle /\ LegalIdle /\ RestIdle

NextDecorator ==
    \/ \E a \in ArgStrs, k \in KwargsStrs, r \in FuncOutcomes, d \in 0..MaxDuration :
           wrapper("search", a, k, r, d)
    \/ DecoratorTick

SpecDecorator == InitDecorator /\ [][NextDecorator]_vars

\* an add_to_batch call that has not started yet; callback tells whether the
\* callback argument is not None
ScheduledAdd(with_callback) ==
    [pc |-> "scheduled", callback |-> with_callback, triggered |-> FALSE,
     accumulated |-> <<>>, items |-> <<>>, callbacks |-> <<>>, next |-> 1]

InitBatch ==
    /\ now = 0
    /\ calls = 0
    /\ \E size \in 1..MaxBatchSize, wait \in 0..MaxWait, assigned \in BOOLEAN :
           BatchInit(size, wait, assigned)
    /\ \E n \in 1..MaxAdds :
           coroutines \in [1..n -> {ScheduledAdd(TRUE), ScheduledAdd(FALSE)}]
    /\ CoreIdle /\ RetryIdle /\ QuickIdle /\ SearchIdle /\ TasksIdle /\ DemoIdle /\ FusionIdle
    /\ EnergyIdle

NextBatch ==
    \/ \E t \in DOMAIN coroutines : add_to_batch(t)
    \/ \E t \in DOMAIN coroutines : FunctionReturns(t)
    \/ \E t \in DOMAIN coroutines : CallbackReturns(t)
    \/ BatchTick

SpecBatch == InitBatch /\ [][NextBatch]_vars


\* the results of the semantic search (list 1) and of the keyword search
\* (list 2); one of them carries no 'id'
ResultsOf(list) ==
    {[has_id |-> TRUE, id |-> id, text |-> id \o list] : id \in {"a", "b", "c"}}
    \cup {[has_id |-> FALSE, id |-> "", text |-> "x" \o list]}

ResultLists(list) ==
    UNION {[1..n -> ResultsOf(list)] : n \in 0..MaxResults}

\* the default weights and those of hybrid_search, in tenths, and a pair
\* that favours the second list
FusionWeights == {<<5, 5>>, <<7, 3>>, <<1, 9>>}

InitFusion ==
    /\ now = 0
    /\ calls = 0
    /\ \E results1 \in ResultLists("1"), results2 \in ResultLists("2"),
          k \in {1, DEFAULT_K}, weights \in FusionWeights :
           lastFusion = [op |-> "asked", results1 |-> results1, results2 |-> results2,
                         k |-> k, weights |-> weights]
    /\ CoreIdle /\ RetryIdle /\ QuickIdle /\ SearchIdle /\ TasksIdle /\ DemoIdle /\ BatchIdle
    /\ EnergyIdle

NextFusion == reciprocal_rank_fusion

SpecFusion == InitFusion /\ [][NextFusion]_vars


\* days on which the check runs
Todays == {"2024-06-15", "2025-01-01", "2026-11-04", "2028-01-01", "2034-01-01"}

\* the 'date' of a DPE
DpeDates == {"2012-03-01", "2016-11-05", "2023-05-20", "missing"}

\* the 'class' of a DPE
DpeClasses == {"A", "B", "C", "D", "E", "F", "G", "missing"}

Properties ==
    {[has_dpe |-> FALSE, date |-> "missing", class |-> "missing"]}
    \cup {[has_dpe |-> TRUE, date |-> d, class |-> c] : d \in DpeDates, c \in DpeClasses}

InitEnergy ==
    /\ \E today \in Todays : now = toordinal(fromisoformat(today))
    /\ calls = 0
    /\ \E property_data \in Properties :
           lastEnergy = [op |-> "asked", property_data |-> property_data]
    /\ CoreIdle /\ RetryIdle /\ QuickIdle /\ SearchIdle /\ TasksIdle /\ DemoIdle /\ BatchIdle
    /\ FusionIdle

NextEnergy == check_energy_compliance

SpecEnergy == InitEnergy /\ [][NextEnergy]_vars

(***************************************************************************)
(* Properties                                                              *)
(***************************************************************************)

\* C1: when process_accounting_query finds an entry under its cache key, the
\* call returns that entry with retrieved_from_cache = True and
\* processing_time = "0.1s (cached)", hit_count has grown by exactly 1,
\* miss_count is unchanged and no search has run.
C1_CacheHitReturnsEntry ==
    (lastCall.op = "process_accounting_query" /\ lastCall.cached_result # None) =>
        /\ lastCall.outcome = "return"
        /\ lastCall.result = [processing_time |-> "0.1s (cached)",
                              retrieved_from_cache |-> TRUE] @@ lastCall.cached_result
        /\ hit_count = lastCall.hit_before + 1
        /\ miss_count = lastCall.miss_before
        /\ lastCall.searched = "none"

\* C2: no step removes a key from AccountingRAG's cache storage or from the
\* decorator's cache dictionary.
C2_NeverEvicted ==
    [][/\ DOMAIN storage \subseteq DOMAIN storage'
       /\ DOMAIN cache \subseteq DOMAIN cache']_vars

\* cache_response has written a key a second time and the key is still there
C2_Witness ==
    /\ lastCall.op = "cache_response" /\ lastCall.overwrote
    /\ lastCall.cache_key \in DOMAIN storage

C4_ClientIsolation ==
    /\ \A x \in keyLog, y \in keyLog : x[1] # y[1] => x[3] # y[3]
    /\ (lastCall.op = "process_accounting_query" /\ lastCall.cached_result # None) =>
           lastCall.cached_result.client_id = lastCall.client_id

\* C5: for the same client, an abbreviation of the replacement table and its
\* full term get the same cache key.
C5_AbbreviationSameKey ==
    \A x \in keyLog, y \in keyLog :
        (/\ x[1] = y[1]
         /\ \E i \in 1..Len(replacements) :
                x[2] = replacements[i][1] /\ y[2] = replacements[i][2])
        => x[3] = y[3]

\* the keys all of whose keywords occur in lower(query), by position
FullMatches(query) ==
    {i \in 1..Len(responses) :
        \A j \in 1..Len(Split(responses[i].key)) :
            Contains(Lower(query), Split(responses[i].key)[j])}

\* the number of keywords of key i that occur in lower(query)
Matching(i, query) ==
    Cardinality({j \in 1..Len(Split(responses[i].key)) :
                    Contains(Lower(query), Split(responses[i].key)[j])})

Least(S) == CHOOSE i \in S : \A k \in S : i <= k

\* C6: find_best_match returns the response of the first key that matches
\* fully; failing that, of the first key with the highest positive number of
\* matching keywords; and None exactly when no keyword occurs in the query,
\* when analyze_query returns the generic fallback; success is always True.
C6_KeywordRouting ==
    lastAnalyze.op = "analyze_query" =>
        LET q     == lastAnalyze.query
            full  == FullMatches(q)
            some  == {i \in 1..Len(responses) : Matching(i, q) > 0}
            top   == {i \in some : \A k \in some : Matching(k, q) <= Matching(i, q)}
        IN  /\ full # {} => lastAnalyze.response = responses[Least(full)]
            /\ (full = {} /\ some # {}) => lastAnalyze.response = responses[Least(top)]
            /\ lastAnalyze.response = None <=> some = {}
            /\ some = {} =>
                   /\ lastAnalyze.result.confidence = 75
                   /\ lastAnalyze.result.sources = <<"demo_docs (analyse générale)">>
            /\ some # {} =>
                   /\ lastAnalyze.result.answer = lastAnalyze.response.answer
                   /\ lastAnalyze.result.confidence = lastAnalyze.response.confidence
            /\ lastAnalyze.result.success = TRUE

\* a query with no full match whose best partial score is shared by two keys
C6_Witness ==
    /\ lastAnalyze.op = "analyze_query"
    /\ FullMatches(lastAnalyze.query) = {}
    /\ Cardinality({i \in 1..Len(responses) : Matching(i, lastAnalyze.query) > 0}) >= 2
    /\ lastAnalyze.response # None

\* C7: a call() that finds the breaker open no more than timeout seconds
\* after last_failure_time is rejected without invoking func, and state,
\* failure_count and last_failure_time stay as they were.
C7_OpenRejects ==
    (/\ lastBreak.outcome # "init"
     /\ lastBreak.state_before = "open"
     /\ lastBreak.at - lastBreak.failure_time_before <= timeout) =>
        /\ lastBreak.outcome = "rejected"
        /\ ~lastBreak.invoked
        /\ pc = "idle"
        /\ state = "open"
        /\ failure_count = lastBreak.count_before
        /\ last_failure_time = lastBreak.failure_time_before

\* a call was rejected exactly timeout seconds after the last failure
C7_Witness ==
    /\ lastBreak.outcome = "rejected"
    /\ lastBreak.at - lastBreak.failure_time_before = timeout
    /\ now > lastBreak.at

\* C8: the state is open only with failure_count >= failure_threshold and
\* closed only with failure_count < failure_threshold; failure_count is the
\* number of failing invocations since the last successful one; a failure in
\* the closed state opens the breaker exactly when it is the
\* failure_threshold-th in a row; a success leaves count 0 and state closed.
C8_OpeningRule ==
    /\ state = "open" => failure_count >= failure_threshold
    /\ state = "closed" => failure_count < failure_threshold
    /\ failure_count = consecutive
    /\ (lastBreak.outcome = "raised" /\ lastBreak.state_before = "closed") =>
           (state = "open" <=> consecutive = failure_threshold)
    /\ lastBreak.outcome = "returned" => (failure_count = 0 /\ state = "closed")

\* the breaker has just opened on the second failure in a row, after an
\* earlier success
C8_Witness ==
    /\ lastBreak.outcome = "raised"
    /\ lastBreak.state_before = "closed"
    /\ state = "open"
    /\ failure_threshold = 2
    /\ calls >= 3

\* C9: a call() that finds the breaker open more than timeout seconds after
\* last_failure_time invokes func in state half-open; a return leaves the
\* breaker closed with failure_count 0, a raise leaves it open with
\* last_failure_time set to the time of that failure; between calls the state
\* is never half-open.
C9_Recovery ==
    /\ pc = "idle" => state # "half-open"
    /\ (/\ lastBreak.outcome # "init"
        /\ lastBreak.state_before = "open"
        /\ lastBreak.at - lastBreak.failure_time_before > timeout) =>
           /\ lastBreak.trial /\ lastBreak.invoked
           /\ lastBreak.outcome \in {"pending", "returned", "raised"}
           /\ lastBreak.outcome = "pending" => (pc = "in_func" /\ state = "half-open")
           /\ lastBreak.outcome = "returned" => (state = "closed" /\ failure_count = 0)
           /\ lastBreak.outcome = "raised" =>
                  (state = "open" /\ last_failure_time = lastBreak.finished
                   /\ last_failure_time > lastBreak.failure_time_before)

\* a trial call has succeeded and closed the breaker
C9_Witness ==
    /\ lastBreak.outcome = "returned"
    /\ lastBreak.trial
    /\ state = "closed"

\* C10: after every acquire() 0 <= tokens <= burst; acquire() returns True
\* exactly when the refilled count is at least one token and then takes one
\* token away; the acquire() calls that returned True within any closed time
\* window of length T number at most burst + rate * T.
C10_TokenBucket ==
    /\ 0 <= tokens /\ tokens <= burst * Resolution
    /\ lastAcquire.op = "acquire" =>
           LET refilled == Min(burst * Resolution,
                               lastAcquire.tokens_before
                               + (lastAcquire.at - lastAcquire.last_update_before) * rate)
           IN  /\ lastAcquire.returned <=> refilled >= Resolution
               /\ tokens = IF lastAcquire.returned THEN refilled - Resolution ELSE refilled
    /\ \A i \in 1..Len(grants), j \in 1..Len(grants) :
           i <= j => (j - i + 1) * Resolution
                        <= burst * Resolution + rate * (grants[j] - grants[i])

\* an acquire() was refused after the bucket had been refilled and drained
C10_Witness ==
    /\ lastAcquire.op = "acquire"
    /\ ~lastAcquire.returned
    /\ Len(grants) >= 3
    /\ grants[Len(grants)] > grants[1]

\* C11: retry_with_backoff with max_retries >= 0 terminates after at most
\* max_retries + 1 invocations of func; it returns the result of the first
\* invocation that does not raise and invokes nothing after it; when every
\* invocation raises it re-raises the last exception; after the n-th failed
\* attempt (n = 1..max_retries) it sleeps base_delay * 2^(n-1) and it does not
\* sleep after the final failure.
RetryInv ==
    /\ Len(invocations) <= max_retries + 1
    /\ \A i \in 1..Len(invocations) : invocations[i].attempt = i - 1
    /\ \A i \in 1..(Len(invocations) - 1) : ~invocations[i].ok
    /\ Len(sleeps) <= max_retries
    /\ \A n \in 1..Len(sleeps) : sleeps[n] = base_delay * Pow2(n - 1)
    /\ retry_pc = "sleeping" => Len(sleeps) = Len(invocations)
    /\ retry_pc = "call" => Len(sleeps) = Len(invocations)
    /\ retry_pc = "returned" =>
           /\ invocations[Len(invocations)].ok
           /\ retry_result = <<"result", Len(invocations) - 1>>
           /\ Len(sleeps) = Len(invocations) - 1
    /\ retry_pc = "raised" =>
           /\ Len(invocations) = max_retries + 1
           /\ ~invocations[Len(invocations)].ok
           /\ retry_result = <<"exception", max_retries>>
           /\ Len(sleeps) = max_retries

C11_RetryTerminates == []RetryInv /\ <>(retry_pc \in {"returned", "raised"})

\* every attempt of three retries has failed, after sleeps of 1, 2 and 4 base delays
C11_Witness ==
    /\ retry_pc = "raised"
    /\ max_retries = 3
    /\ base_delay = 2
    /\ sleeps = <<2, 4, 8>>
    /\ Len(invocations) = 4

\* C12: QuickRAG.search(query, top_k) returns at most top_k results (default 3
\* when called through ask) for every top_k >= 1 and every query, in demo mode
\* as well as in production mode.
C12_AtMostTopK ==
    lastSearch.op \in {"search", "ask"} =>
        /\ lastSearch.outcome = "return"
        /\ Len(lastSearch.results) <= lastSearch.top_k

\* C13: when an exception is raised inside the production branch of
\* search_medical_records, hybrid_search or _production_search, the exception
\* is caught (it never propagates to the caller) and the operation falls back
\* to the demo-mode answer for that query.
C13_FallsBackToDemoAnswer ==
    (lastFallback.op # "init" /\ lastFallback.raised) =>
        /\ lastFallback.outcome = "return"
        /\ lastFallback.result = lastFallback.demo_answer

\* C13 as amended: the exception is caught and the operation returns its fixed
\* error result, not the demo-mode answer: search_medical_records the dict
\* {error, results: [], fallback}, hybrid_search the empty list, and
\* _production_search the dict {query, client_id, error, fallback_answer,
\* success: False}.
C13_ReturnsErrorResult ==
    (lastFallback.op # "init" /\ lastFallback.raised) =>
        /\ lastFallback.outcome = "return"
        /\ lastFallback.op = "search_medical_records" =>
               /\ lastFallback.result = [error |-> lastFallback.error, results |-> <<>>,
                                         fallback |-> "Using cached results..."]
               /\ lastFallback.result # lastFallback.demo_answer
        /\ lastFallback.op = "hybrid_search" => lastFallback.result = <<>>
        /\ lastFallback.op = "_production_search" =>
               /\ DOMAIN lastFallback.result =
                      {"query", "client_id", "error", "fallback_answer", "success"}
               /\ lastFallback.result.query = lastFallback.query
               /\ lastFallback.result.client_id = lastFallback.client_id
               /\ lastFallback.result.fallback_answer =
                      "Erreur temporaire. Consultez votre documentation comptable ou contactez le support."
               /\ lastFallback.result.success = FALSE
               /\ lastFallback.result # lastFallback.demo_answer

\* hybrid_search in production mode has answered a query that the demo search
\* finds results for
C13_Witness ==
    /\ lastFallback.op = "hybrid_search"
    /\ lastFallback.raised
    /\ lastFallback.result = <<>>
    /\ Len(lastFallback.demo_answer) = 2

\* the state a freshly constructed AccountingRAG is left in by one complete
\* demo-mode invocation process_accounting_query(query, client_id): a hit
\* raises KeyError before it has changed anything (see C1)
SequentialStep(st, query, client_id) ==
    LET cache_key == generate_cache_key(query, client_id)
    IN  IF cache_key \in DOMAIN st.storage THEN st
        ELSE [storage    |-> (cache_key :> cached_entry(_demo_search(query, client_id),
                                                        TTL_HOURS)) @@ st.storage,
              hit_count  |-> st.hit_count,
              miss_count |-> st.miss_count + 1,
              monitor    |-> update_monitoring_metrics(st.monitor, client_id, 0)]

\* the invocations order[i], order[i+1], ... run one after the other from st
RECURSIVE SequentialRun(_, _, _)
SequentialRun(st, order, i) ==
    IF i > Len(tasks) THEN st
    ELSE SequentialRun(SequentialStep(st, tasks[order[i]].query, tasks[order[i]].client_id),
                       order, i + 1)

\* C14: in demo mode process_accounting_query reaches no suspension point, so
\* concurrent invocations on one event loop run one after the other without
\* interleaving: no coroutine is ever suspended, and when all have finished
\* the cache storage, the hit/miss counters and the monitoring state equal
\* those of running the same invocations sequentially in some order.
C14_DemoModeSerial ==
    demo_mode =>
        /\ \A t \in DOMAIN tasks : tasks[t].pc # "awaiting"
        /\ (\A t \in DOMAIN tasks : tasks[t].pc \in {"done", "KeyError"}) =>
               \E order \in Permutations(DOMAIN tasks) :
                   SequentialRun([storage |-> <<>>, hit_count |-> 0, miss_count |-> 0,
                                  monitor |-> setup_monitoring], order, 1)
                   = [storage |-> storage, hit_count |-> hit_count,
                      miss_count |-> miss_count, monitor |-> monitor]

\* two demo-mode invocations with the same cache key have both finished, the
\* second of the list first: its result is cached and the other one hit it
C14_Witness ==
    /\ demo_mode
    /\ Len(tasks) = 2
    /\ tasks[1].query = "tva" /\ tasks[2].query = " TVA "
    /\ tasks[1].client_id = tasks[2].client_id
    /\ tasks[1].pc = "KeyError" /\ tasks[2].pc = "done"
    /\ miss_count = 1

\* some word of the key phrase is a substring of the lowercased query
SomeWordOccurs(words, query) == \E w \in words : Contains(Lower(query), w)

\* C15: AccountingRAG._demo_search returns the pre-written response of the
\* first key phrase ('tva prestation service', then 'frais repas déductible')
\* at least one of whose words is a substring of the lowercased query, and the
\* generic fallback (confidence 0.7, sources ['Recommandation générale'])
\* exactly when no word of any key phrase occurs; the returned dict always has
\* success = True and echoes query and client_id.
C15_DemoKeywordRouting ==
    lastDemo.op = "_demo_search" =>
        LET r     == lastDemo.result
            first == SomeWordOccurs({"tva", "prestation", "service"}, lastDemo.query)
            other == SomeWordOccurs({"frais", "repas", "déductible"}, lastDemo.query)
        IN  /\ r.success = TRUE
            /\ r.query = lastDemo.query
            /\ r.client_id = lastDemo.client_id
            /\ first => /\ r.answer = "tva prestation service"
                        /\ r.confidence = 96
            /\ (~first /\ other) => /\ r.answer = "frais repas déductible"
                                    /\ r.confidence = 94
            /\ (r.answer = "generic") <=> (~first /\ ~other)
            /\ (r.answer = "generic") =>
                   /\ r.confidence = 70
                   /\ r.sources = <<"Recommandation générale">>

\* a query with a word of each key phrase got the response of the first one
C15_Witness ==
    /\ lastDemo.op = "_demo_search"
    /\ lastDemo.query = "Frais de REPAS prestations de services"
    /\ lastDemo.result.answer = "tva prestation service"

\* how often x occurs in the sequence s
RECURSIVE Count(_, _)
Count(s, x) == IF s = <<>> THEN 0 ELSE (IF Head(s) = x THEN 1 ELSE 0) + Count(Tail(s), x)

\* how often item was handed to the batch processing function
RECURSIVE TimesHanded(_, _)
TimesHanded(lists, item) ==
    IF lists = <<>> THEN 0 ELSE Count(Head(lists), item) + TimesHanded(Tail(lists), item)

\* how often the callback of item was awaited with result
TimesCalled(item, result) ==
    Cardinality({k \in 1..Len(called) : called[k].item = item /\ called[k].result = result})

\* C16: when add_to_batch makes the batch reach batch_size items, or is called
\* when the age of the batch exceeds max_wait, process_batch runs before
\* add_to_batch returns: all accumulated items are handed to the batch
\* processing function together in insertion order, each non-null callback is
\* awaited exactly once with the result at the position of its item, and
\* afterwards the batch is empty and batch_start_time is None.
C16_FlushRule ==
    \A t \in DOMAIN coroutines :
        (coroutines[t].triggered /\ coroutines[t].pc \in {"done", "AttributeError"}) =>
            /\ coroutines[t].pc = "done"
            /\ \E k \in 1..Len(handed) : handed[k] = coroutines[t].accumulated
            /\ \A i \in 1..Len(coroutines[t].accumulated) :
                   LET item == coroutines[t].accumulated[i]
                   IN  coroutines[item].callback =>
                           /\ TimesCalled(item, ResultOf(item)) = 1
                           /\ \A k \in 1..Len(called) :
                                  called[k].item = item => called[k].result = ResultOf(item)
            /\ lastDone = t => (batch = <<>> /\ batch_start_time = None)

\* C17: under interleaved add_to_batch coroutines every item ever added is
\* passed to the batch processing function exactly once and its callback is
\* invoked exactly once: no item is dropped by the final self.batch = [] and
\* none is processed twice. An item still waiting in a batch that is neither
\* full nor too old counts as not yet due.
C17_ExactlyOnce ==
    (\A t \in DOMAIN coroutines : coroutines[t].pc \in {"done", "AttributeError"}) =>
        \A t \in DOMAIN coroutines :
            LET waiting == \E i \in 1..Len(batch) : batch[i].item = t
            IN  /\ TimesHanded(handed, t) = (IF waiting THEN 0 ELSE 1)
                /\ coroutines[t].callback =>
                       Cardinality({k \in 1..Len(called) : called[k].item = t})
                       = (IF waiting THEN 0 ELSE 1)

\* C18: the wrapper made by cache_decorator returns the stored result without
\* invoking the wrapped function exactly when an entry for the computed key
\* exists and now - entry.timestamp < ttl; otherwise it invokes the function
\* once, stores the result with the timestamp of the moment of storing and
\* returns the result; when the function raises, the cache is unchanged and
\* the exception propagates.
C18_CacheDecorator ==
    [][(lastWrap'.op = "wrapper" /\ calls' = calls + 1) =>
           LET w     == lastWrap'
               key   == w.cache_key
               fresh == key \in DOMAIN cache /\ now - cache[key].timestamp < ttl
           IN  /\ w.invoked = ~fresh
               /\ fresh => /\ w.outcome = "return"
                           /\ w.result = cache[key].result
                           /\ cache' = cache
               /\ (~fresh /\ w.outcome = "return") =>
                       cache' = (key :> [result |-> w.result, timestamp |-> now']) @@ cache
               /\ w.outcome = "raise" => (~fresh /\ cache' = cache)]_vars

\* a call was answered from an entry stored by an earlier call that took time
C18_Witness ==
    /\ lastWrap.op = "wrapper"
    /\ ~lastWrap.invoked
    /\ lastWrap.cache_key \in DOMAIN cache
    /\ cache[lastWrap.cache_key].timestamp > 0
    /\ lastWrap.at > cache[lastWrap.cache_key].timestamp
    /\ lastWrap.result = cache[lastWrap.cache_key].result

\* every result of the list has an 'id' and no two share one
UniqueIds(results) ==
    /\ \A i \in 1..Len(results) : results[i].has_id
    /\ \A i, j \in 1..Len(results) : results[i].id = results[j].id => i = j

\* weight / (k + r + 1) when id is at 0-based rank r of results, else 0
RankShare(results, id, k, weight) ==
    IF \E i \in 1..Len(results) : results[i].id = id
    THEN Frac(weight, k + ((CHOOSE i \in 1..Len(results) : results[i].id = id) - 1) + 1)
    ELSE Frac(0, 1)

FusedScore(id) ==
    FracAdd(RankShare(lastFusion.results1, id, lastFusion.k, lastFusion.weights[1]),
            RankShare(lastFusion.results2, id, lastFusion.k, lastFusion.weights[2]))

\* C19: when every result has an 'id' that is unique within its list,
\* reciprocal_rank_fusion returns the results, one per id, in non-increasing
\* order of fused score, the score of an id being weights[0] / (k + r1 + 1)
\* for its rank r1 in results1 plus weights[1] / (k + r2 + 1) for its rank r2
\* in results2.
C19_FusedOrder ==
    (/\ lastFusion.op = "fused"
     /\ UniqueIds(lastFusion.results1)
     /\ UniqueIds(lastFusion.results2)) =>
        LET fused == lastFusion.fused
            all   == lastFusion.results1 \o lastFusion.results2
        IN  /\ {fused[i].id : i \in 1..Len(fused)} = {all[i].id : i \in 1..Len(all)}
            /\ \A i, j \in 1..Len(fused) : fused[i].id = fused[j].id => i = j
            /\ \A i \in 1..Len(fused) : \E j \in 1..Len(all) : fused[i] = all[j]
            /\ \A i \in 1..(Len(fused) - 1) :
                   ~FracLess(FusedScore(fused[i].id), FusedScore(fused[i + 1].id))

\* two full lists with unique ids that share an id were fused, and the
\* result does not start with the first result of results1
C19_Witness ==
    /\ lastFusion.op = "fused"
    /\ UniqueIds(lastFusion.results1)
    /\ UniqueIds(lastFusion.results2)
    /\ Len(lastFusion.results1) = MaxResults
    /\ Len(lastFusion.results2) = MaxResults
    /\ Len(lastFusion.fused) = 2 * MaxResults - 1
    /\ lastFusion.fused[1].id # lastFusion.results1[1].id
    /\ FracLess(FusedScore(lastFusion.fused[2].id), FusedScore(lastFusion.fused[1].id))

\* the date a restriction names, under whichever key
RestrictionDate(dpe_class) ==
    LET restriction == rental_restrictions[dpe_class]
    IN  restriction[CHOOSE key \in DOMAIN restriction : TRUE]

\* C20: check_energy_compliance returns a result and never raises for every
\* property whose DPE has a valid date and a class in A..G: a missing DPE
\* gives NON_COMPLIANT with score 0; a class listed in rental_restrictions
\* (G, F, E) gives NON_COMPLIANT with score 0 once its restriction date has
\* been reached and PARTIAL with score 50 and a medium-severity issue before
\* that date; a class not listed (A..D) keeps the status and score
\* determined by DPE validity alone.
C20_EnergyCompliance ==
    (/\ lastEnergy.op = "checked"
     /\ lastEnergy.property_data.has_dpe =>
            /\ lastEnergy.property_data.date # "missing"
            /\ lastEnergy.property_data.class \in {"A", "B", "C", "D", "E", "F", "G"}) =>
        LET property_data == lastEnergy.property_data
            result        == lastEnergy.result
        IN  /\ result.outcome = "return"
            /\ ~property_data.has_dpe =>
                   (result.status = "NON_COMPLIANT" /\ result.score = 0)
            /\ (property_data.has_dpe /\ property_data.class \in DOMAIN rental_restrictions) =>
                   IF now >= toordinal(fromisoformat(RestrictionDate(property_data.class)))
                   THEN result.status = "NON_COMPLIANT" /\ result.score = 0
                   ELSE /\ result.status = "PARTIAL"
                        /\ result.score = 50
                        /\ \E i \in 1..Len(result.issues) : result.issues[i].severity = "medium"
            /\ (property_data.has_dpe /\ property_data.class \notin DOMAIN rental_restrictions) =>
                   /\ result.status = validity_result(fromisoformat(property_data.date)).status
                   /\ result.score = validity_result(fromisoformat(property_data.date)).score

====
